---- MODULE Spec2Model ----
(***************************************************************************)
(* Gaming data pipeline: load/upsert layer, validation and transform,      *)
(* forecasting service and rate-limited connectors, modelled from the      *)
(* Python sources under src/.                                              *)
(*                                                                         *)
(* Conventions.  A calendar day is a natural number, Today is "now".  A    *)
(* missing value (Python None / absent key) is NULL.  Time of day is in    *)
(* ticks of 0.1 ms.  Numeric raw values are integral, which is what the    *)
(* connectors produce (opendota_api.py:140, steam_api.py:115).             *)
(***************************************************************************)
EXTENDS Integers, Sequences, FiniteSets, TLC

VARIABLES
    store,      \* matches table: match_id -> committed row
    loadSeq,    \* number of load_matches calls so far (stamps created_at)
    loads,      \* summaries of the load_matches calls, oldest first
    rawIn,      \* raw records handed to transform_matches
    gameIn,     \* game_id handed to transform_matches
    xformOut,   \* list returned by transform_matches
    dedupOut,   \* list returned by deduplicate_matches
    xpc,        \* how far the transform stage has got
    forecaster, \* the PlayerCountForecaster of the ForecastingService
    fcLast,     \* summary of the last generate_player_count_forecasts call
    clock,      \* time.time(), in ticks
    conn,       \* per connector: last_request_time and its HTTP history
    apiKey,     \* per connector: an API key is configured
    fetchLast,  \* summary of the last connector call
    nFetch,     \* connector calls so far
    results,    \* extract_all_games: the dict built so far, game -> records
    epc,        \* extract_all_games: the step reached
    calls,      \* extract_all_games: connector calls made and their outcome
    rpc,        \* ETLPipeline.run: the step reached
    totals,     \* ETLPipeline.run: total_matches and total_stats
    statIn,     \* raw stat handed to transform_player_stats
    statOut,    \* what transform_player_stats returned
    statStore,  \* player_stats table: stat_id -> committed row
    statLoads,  \* summaries of the load_player_stats calls, oldest first
    modelFile,  \* data/models/player_count_forecaster.pkl
    fcLog,      \* the calls made on one ForecastingService, oldest first
    fcStore,    \* forecasts table: forecast_id -> committed row
    is_running, \* AutoRefreshService.is_running
    thread,     \* AutoRefreshService.thread: the thread started last
    threads,    \* the threads started so far and where each stands
    last_refresh \* AutoRefreshService.last_refresh: the thread that set it

loadVars == <<store, loadSeq, loads>>

xformVars == <<rawIn, gameIn, xformOut, dedupOut, xpc>>

fcVars == <<forecaster, fcLast>>

connVars == <<clock, conn, apiKey, fetchLast, nFetch>>

extVars == <<results, epc, calls>>

runVars == <<rpc, totals>>

statVars == <<statIn, statOut, statStore, statLoads>>

svcVars == <<modelFile, fcLog, fcStore>>

arVars == <<is_running, thread, threads, last_refresh>>

vars == <<store, loadSeq, loads, rawIn, gameIn, xformOut, dedupOut, xpc,
          forecaster, fcLast, clock, conn, apiKey, fetchLast, nFetch,
          results, epc, calls, rpc, totals,
          statIn, statOut, statStore, statLoads,
          modelFile, fcLog, fcStore, is_running, thread, threads,
          last_refresh>>

NULL == -999

(***************************************************************************)
(* Bounds of the model.                                                    *)
(***************************************************************************)
MaxLen == 3        \* longest record list handed to load_matches
MaxLoads == 2      \* load_matches calls in one behaviour
MaxRaw == 3        \* longest raw list handed to transform_matches
MaxDays == 7       \* longest forecast horizon asked for
MaxFetches == 2    \* connector calls in one behaviour
MaxExtract == 5    \* most raw records extraction yields for one game

(***************************************************************************)
(* State of the other components while one component is exercised.        *)
(***************************************************************************)
\* models.py:94-97 PlayerCountForecaster.__init__
Untrained == [is_trained |-> FALSE, lo |-> 0, hi |-> 0]

NoCall == [path |-> "none"]

IdleTransform ==
    /\ rawIn = <<>> /\ gameIn = "dota2" /\ xformOut = <<>>
    /\ dedupOut = <<>> /\ xpc = "idle"

IdleForecast == forecaster = Untrained /\ fcLast = NoCall

Connectors == {"opendota", "steam", "riot"}

StartClock == 1000000  \* the wall clock, far from the epoch, at start

\* base_connector.py:23
FreshConnector == [last_request_time |-> 0, http_last |-> NULL,
                   min_gap |-> NULL]

IdleConnectors ==
    /\ clock = StartClock
    /\ conn = [c \in Connectors |-> FreshConnector]
    /\ apiKey = [c \in Connectors |-> FALSE]
    /\ fetchLast = NoCall
    /\ nFetch = 0

IdleExtract == results = <<>> /\ epc = "idle" /\ calls = <<>>

IdleRun ==
    /\ rpc = [at |-> "idle", game |-> 0, done |-> <<>>]
    /\ totals = [matches |-> 0, stats |-> 0]

IdleStats ==
    /\ statIn = <<>> /\ statOut = <<>>
    /\ statStore = <<>> /\ statLoads = <<>>

NoFile == [exists |-> FALSE, lo |-> 0, hi |-> 0]

IdleService == modelFile = NoFile /\ fcLog = <<>> /\ fcStore = <<>>

IdleRefresh ==
    /\ is_running = FALSE /\ thread = 0 /\ threads = <<>>
    /\ last_refresh = 0

(***************************************************************************)
(* Small helpers.                                                          *)
(***************************************************************************)
Min(a, b) == IF a <= b THEN a ELSE b

Max(a, b) == IF a >= b THEN a ELSE b

SeqsUpTo(S, n) == UNION {[1..k -> S] : k \in 0..n}

Ids(recs) == {recs[i].match_id : i \in DOMAIN recs}

DistinctIds(recs) ==
    \A i, j \in DOMAIN recs : i # j => recs[i].match_id # recs[j].match_id

(***************************************************************************)
(* Canonical match record, the dict handed to DataLoader.load_matches.     *)
(* unknown_key says the dict carries a key that is no column of Match, so  *)
(* the Match constructor raises TypeError on it.                           *)
(***************************************************************************)
MatchRec(id, game, date, dur, src, unk) ==
    [match_id |-> id, game_id |-> game, match_date |-> date,
     duration_minutes |-> dur, source |-> src, unknown_key |-> unk]

LoadPool ==
    { MatchRec("m1", "dota2", 38, 30, "opendota_api", FALSE),
      MatchRec("m2", "dota2", 39, 30, "opendota_api", FALSE),
      MatchRec("m3", "dota2", 39, 30, "opendota_api", FALSE),
      MatchRec("m1", "dota2", 38, 45, "opendota_api", FALSE),
      MatchRec("m2", "dota2", NULL, 30, "opendota_api", FALSE),
      MatchRec("m3", "dota2", 39, 30, "opendota_api", TRUE) }

(***************************************************************************)
(* models.py Match: the row a record becomes.  created_at is the column    *)
(* default, set when the row is inserted and never by an update.           *)
(***************************************************************************)
NewRow(r, stamp) ==
    [match_id |-> r.match_id, game_id |-> r.game_id,
     match_date |-> r.match_date, duration_minutes |-> r.duration_minutes,
     source |-> r.source, created_at |-> stamp]

\* load.py:40-42, every key except match_id is set on the existing row
UpdateRow(row, r) ==
    [row EXCEPT !.game_id = r.game_id, !.match_date = r.match_date,
                !.duration_minutes = r.duration_minutes,
                !.source = r.source]

\* match_date is a NOT NULL column of Match (models.py:59)
RowViolates(row) == row.match_date = NULL

(***************************************************************************)
(* The SQLAlchemy session of one load_matches call.  The session factory   *)
(* is built with autoflush=False (db_utils.py:74), so a query reads the    *)
(* committed table only, session.add and setattr stay in the session until *)
(* commit() flushes them, and rollback() discards all of them.             *)
(*   db      committed rows                                                *)
(*   pending rows added with session.add, in order                         *)
(*   dirty   match_id -> modified copy of a committed row                  *)
(***************************************************************************)
EmptyFn == [x \in {} |-> NULL]

NewSession(db) ==
    [db |-> db, pending |-> <<>>, dirty |-> EmptyFn,
     inserted |-> 0, updated |-> 0, errors |-> 0]

\* session.rollback(): pending objects are expunged, changes are expired
Rollback(s) == [s EXCEPT !.pending = <<>>, !.dirty = EmptyFn]

\* the persistent object the query returns, with its unflushed changes
Loaded(s, id) == IF id \in DOMAIN s.dirty THEN s.dirty[id] ELSE s.db[id]

\* a loader that skips the lookup of load.py:34-36 and always inserts
ProcessRecordNoLookup(s, r, stamp) ==
    IF r.unknown_key
    THEN [Rollback(s) EXCEPT !.errors = @ + 1]
    ELSE [s EXCEPT !.pending = Append(@, NewRow(r, stamp)),
                   !.inserted = @ + 1]

\* load.py:32-59, one record of a batch
ProcessRecord(s, r, stamp) ==
    IF r.match_id \in DOMAIN s.db
    THEN [s EXCEPT !.dirty = [x \in DOMAIN s.dirty \cup {r.match_id} |->
                                 IF x = r.match_id
                                 THEN UpdateRow(Loaded(s, x), r)
                                 ELSE s.dirty[x]],
                   !.updated = @ + 1]
    ELSE IF r.unknown_key
         THEN [Rollback(s) EXCEPT !.errors = @ + 1]
         ELSE [s EXCEPT !.pending = Append(@, NewRow(r, stamp)),
                        !.inserted = @ + 1]

RECURSIVE ProcessBatch(_, _, _)
ProcessBatch(s, batch, stamp) ==
    IF batch = <<>> THEN s
    ELSE ProcessBatch(ProcessRecord(s, Head(batch), stamp), Tail(batch), stamp)

\* the flush of commit() fails on a NOT NULL violation or on a second row
\* with a primary key
FlushFails(s) ==
    \/ \E i \in DOMAIN s.pending : RowViolates(s.pending[i])
    \/ \E i \in DOMAIN s.pending : s.pending[i].match_id \in DOMAIN s.db
    \/ \E id \in DOMAIN s.dirty : RowViolates(s.dirty[id])
    \/ \E i, j \in DOMAIN s.pending :
          i # j /\ s.pending[i].match_id = s.pending[j].match_id

PendingRow(s, id) ==
    s.pending[CHOOSE i \in DOMAIN s.pending : s.pending[i].match_id = id]

Flushed(s) ==
    LET newIds == {s.pending[i].match_id : i \in DOMAIN s.pending}
    IN [x \in DOMAIN s.db \cup newIds |->
           IF x \in DOMAIN s.dirty THEN s.dirty[x]
           ELSE IF x \in DOMAIN s.db THEN s.db[x]
           ELSE PendingRow(s, x)]

\* a commit handler that counts one error for the failed batch
CommitBatchCountsOne(s, n, envFail) ==
    IF envFail \/ FlushFails(s)
    THEN [Rollback(s) EXCEPT !.errors = @ + 1]
    ELSE [Rollback(s) EXCEPT !.db = Flushed(s)]

\* load.py:61-68, commit of one batch; envFail is a commit failure that
\* the records do not cause (connection lost, disk full)
CommitBatch(s, n, envFail) ==
    IF envFail \/ FlushFails(s)
    THEN [Rollback(s) EXCEPT !.errors = @ + n]
    ELSE [Rollback(s) EXCEPT !.db = Flushed(s)]

\* load.py:28-29, batch number b (from 1) of the list
Batch(recs, bs, b) ==
    SubSeq(recs, (b - 1) * bs + 1, Min(b * bs, Len(recs)))

NumBatches(recs, bs) == (Len(recs) + bs - 1) \div bs

RECURSIVE LoadFrom(_, _, _, _, _, _)
LoadFrom(s, recs, bs, b, fail, stamp) ==
    IF b > NumBatches(recs, bs) THEN s
    ELSE LET batch == Batch(recs, bs, b)
             done == CommitBatch(ProcessBatch(s, batch, stamp),
                                 Len(batch), fail = b)
         IN LoadFrom(done, recs, bs, b + 1, fail, stamp)

\* load.py:22-78 DataLoader.load_matches; fail is the number of the batch
\* whose commit fails for a reason of the environment, 0 for none
LoadMatchesResult(db, recs, bs, fail, stamp) ==
    LET s == LoadFrom(NewSession(db), recs, bs, 1, fail, stamp)
    IN [db |-> s.db,
        stats |-> [inserted |-> s.inserted, updated |-> s.updated,
                   errors |-> s.errors]]

(***************************************************************************)
(* Stores the loader can start from: the empty table, and the table a      *)
(* previous pipeline run left with m1 in it.                               *)
(***************************************************************************)
StoreOf(rows) ==
    [id \in {r.match_id : r \in rows} |->
        CHOOSE r \in rows : r.match_id = id]

InitialStores ==
    { EmptyFn,
      StoreOf({NewRow(MatchRec("m1", "dota2", 37, 20, "steam_api", FALSE), 0)}) }

LoadSummary(recs, bs, fail, before, res) ==
    [records |-> recs, batch_size |-> bs, fail |-> fail,
     before |-> before, after |-> res.db, stats |-> res.stats]

InitLoad ==
    /\ store \in InitialStores
    /\ loadSeq = 0
    /\ loads = <<>>
    /\ IdleTransform
    /\ IdleForecast
    /\ IdleService /\ IdleRefresh
    /\ IdleExtract /\ IdleRun /\ IdleStats
    /\ IdleConnectors

DoLoad(recs, bs, fail) ==
    LET res == LoadMatchesResult(store, recs, bs, fail, loadSeq + 1)
    IN /\ store' = res.db
       /\ loadSeq' = loadSeq + 1
       /\ loads' = Append(loads, LoadSummary(recs, bs, fail, store, res))
       /\ UNCHANGED <<xformVars, fcVars, svcVars,
                   arVars, connVars,
                      extVars, runVars, statVars>>

\* a call of load_matches
LoadMatches ==
    /\ Len(loads) = 0
    /\ \E recs \in SeqsUpTo(LoadPool, MaxLen), bs \in 1..MaxLen,
          fail \in 0..MaxLen :
          DoLoad(recs, bs, fail)

\* the next call of load_matches, handed the list of the call before
LoadMatchesAgain ==
    /\ Len(loads) \in 1..(MaxLoads - 1)
    /\ \E fail \in 0..MaxLen :
          DoLoad(loads[Len(loads)].records, loads[Len(loads)].batch_size, fail)

NextLoad == LoadMatches \/ LoadMatchesAgain

SpecLoad == InitLoad /\ [][NextLoad]_vars

(***************************************************************************)
(* Properties of the load layer.                                           *)
(***************************************************************************)
LastLoad == loads[Len(loads)]

PrevLoad == loads[Len(loads) - 1]

\* the record passes every constraint of the table and the constructor
Acceptable(r) == r.match_date # NULL /\ ~r.unknown_key

AllAcceptable(recs) == \A i \in DOMAIN recs : Acceptable(recs[i])

\* a commit of the call failed for a reason of the environment
EnvFailed(c) == c.fail \in 1..NumBatches(c.records, c.batch_size)

\* the row stored under the record's key carries the record's fields
Persisted(db, r) ==
    /\ r.match_id \in DOMAIN db
    /\ db[r.match_id] = UpdateRow(db[r.match_id], r)

TwiceSameList ==
    /\ Len(loads) = 2
    /\ LastLoad.records = PrevLoad.records
    /\ DistinctIds(LastLoad.records)
    /\ AllAcceptable(LastLoad.records)
    /\ ~EnvFailed(PrevLoad)

\* C1: load_matches called twice in a row with one list of acceptable
\* records with distinct match_ids leaves, after the second call, the
\* matches stored after the first call, and the second call reports
\* inserted = 0 and updated = number of records.
C1_Idempotent ==
    TwiceSameList =>
        /\ LastLoad.after = PrevLoad.after
        /\ LastLoad.stats.inserted = 0
        /\ LastLoad.stats.updated = Len(LastLoad.records)

C1_Witness ==
    /\ TwiceSameList
    /\ Len(LastLoad.records) >= 2
    /\ PrevLoad.stats.inserted >= 1
    /\ PrevLoad.stats.updated >= 1

OneBadRecord(c) ==
    /\ Len(c.records) >= 2
    /\ c.batch_size >= Len(c.records)
    /\ DistinctIds(c.records)
    /\ ~EnvFailed(c)
    /\ Cardinality({i \in DOMAIN c.records : ~Acceptable(c.records[i])}) = 1

\* C2: when exactly one record of a batch fails and the others are valid,
\* every other record of the batch is persisted and the call reports
\* inserted + updated = batch size - 1 and errors = 1, wherever the bad
\* record stands in the batch.
C2_IsolatedFailure ==
    (Len(loads) >= 1 /\ OneBadRecord(LastLoad)) =>
        /\ \A i \in DOMAIN LastLoad.records :
              Acceptable(LastLoad.records[i]) =>
                  Persisted(store, LastLoad.records[i])
        /\ LastLoad.stats.inserted + LastLoad.stats.updated
              = Len(LastLoad.records) - 1
        /\ LastLoad.stats.errors = 1

(***************************************************************************)
(* Validation and transform.                                               *)
(*                                                                         *)
(* A raw date value is [kind, day]:                                        *)
(*   none      key absent or None                                          *)
(*   datetime  a datetime object                                           *)
(*   epoch     a Unix timestamp fromtimestamp accepts                      *)
(*   epoch_bad a number fromtimestamp rejects                              *)
(*   iso       an ISO-8601 string                                          *)
(*   isoz      an ISO-8601 string with the Z suffix                        *)
(*   fmt       a string only strptime reads ("2024-1-5")                   *)
(*   bad       any other string                                            *)
(* A raw match_id of "" is an absent key; a raw number of NULL is an       *)
(* absent, None or non-numeric value.                                      *)
(***************************************************************************)
DateVal(kind, day) == [kind |-> kind, day |-> day]

NoDate == DateVal("none", NULL)

Raw(id, date, dur, st, d, src) ==
    [match_id |-> id, match_date |-> date, duration_minutes |-> dur,
     start_time |-> st, duration |-> d, source |-> src]

RawPool ==
    { Raw("m1", DateVal("iso", 38), 45, NoDate, NULL, "opendota_api"),
      Raw("m2", DateVal("iso", 39), 300, NoDate, NULL, "opendota_api"),
      Raw("m2", DateVal("datetime", 39), 301, NoDate, NULL, "opendota_api"),
      Raw("m1", DateVal("epoch", 37), 0, NoDate, NULL, "steam_api"),
      Raw("m3", DateVal("bad", NULL), 30, NoDate, NULL, "opendota_api"),
      Raw("m3", DateVal("fmt", 38), -1, NoDate, NULL, "opendota_api"),
      Raw("", DateVal("iso", 38), 30, NoDate, NULL, "opendota_api"),
      Raw("m3", NoDate, NULL, DateVal("epoch", 36), 3000, "opendota"),
      Raw("m2", DateVal("isoz", 38), NULL, NoDate, 18060, "opendota"),
      Raw("m1", DateVal("epoch_bad", NULL), 60, DateVal("bad", NULL), 45,
          "opendota") }

\* data_validator.py:16-61 API_FIELD_MAPPINGS, the source fields of a
\* (game, source) pair that map to match_date and duration_minutes
MapsStartTime(game, source) == game = "dota2" /\ source = "opendota"

MapsDuration(game, source) ==
    \/ game = "dota2" /\ source = "opendota"
    \/ game = "csgo" /\ source = "steam"

\* data_validator.py:65-101 DataValidator.validate_match_data
ValidatorResult(match, game, source) ==
    LET st == match.start_time
        hasDate == MapsStartTime(game, source) /\ st.kind # "none"
        hasDur == MapsDuration(game, source) /\ match.duration # NULL
        d == match.duration
    IN [raised |-> hasDate /\ st.kind = "epoch_bad",
        match_date |->
            IF ~hasDate THEN NoDate
            ELSE IF st.kind \in {"epoch", "iso"}
                 THEN DateVal("datetime", st.day)
                 ELSE st,
        duration_minutes |->
            IF ~hasDur THEN NULL
            ELSE IF d > 60 THEN d \div 60 ELSE d]

\* a parser that takes any string for a date
ParseDatetimeLenient(v) ==
    IF v.kind \in {"datetime", "epoch", "iso", "isoz", "fmt", "bad"}
    THEN IF v.day = NULL THEN 0 ELSE v.day
    ELSE NULL

\* transform.py:134-165 DataTransformer._parse_datetime, NULL for None
ParseDatetime(v) ==
    IF v.kind \in {"datetime", "epoch", "iso", "isoz", "fmt"}
    THEN v.day
    ELSE NULL

\* validators.py:65-72 clean_numeric_value
CleanNumericValue(v, default) == IF v = NULL THEN default ELSE v

\* a validator that lost its upper bound
ValidDurationNoUpper(v) == v >= 0

\* validators.py:18-22 MatchData.validate_duration
ValidDuration(v) == v >= 0 /\ v <= 300

\* validators.py:43-49 validate_match_data on a record whose match_id,
\* game_id, match_type are strings and whose match_date is a datetime
ValidateMatchData(rec) == ValidDuration(rec.duration_minutes)

\* Python "a or b"
OrDate(a, b) == IF a.kind # "none" THEN a ELSE b

OrNum(a, b) == IF a # NULL /\ a # 0 THEN a ELSE b

\* transform.py:49-58, the record built from one raw record
Candidate(match, game, source) ==
    LET validated == ValidatorResult(match, game, source)
    IN MatchRec(match.match_id, game,
                ParseDatetime(OrDate(match.match_date, validated.match_date)),
                CleanNumericValue(OrNum(validated.duration_minutes,
                                        match.duration_minutes), 0),
                match.source, FALSE)

\* transform.py:31-68, what one raw record adds to the output
TransformOne(match, game, source) ==
    LET validated == ValidatorResult(match, game, source)
        cand == Candidate(match, game, source)
    IN IF validated.raised THEN <<>>
       ELSE IF cand.match_date = NULL THEN <<>>
       ELSE IF ValidateMatchData(cand) THEN <<cand>>
       ELSE <<>>

\* a loop that gives up at the first record it has to drop
RECURSIVE TransformEachStopping(_, _, _)
TransformEachStopping(raws, game, source) ==
    IF raws = <<>> THEN <<>>
    ELSE IF TransformOne(Head(raws), game, source) = <<>> THEN <<>>
    ELSE TransformOne(Head(raws), game, source)
            \o TransformEachStopping(Tail(raws), game, source)

\* transform.py:30-68, the loop over the raw records
RECURSIVE TransformEach(_, _, _)
TransformEach(raws, game, source) ==
    IF raws = <<>> THEN <<>>
    ELSE TransformOne(Head(raws), game, source)
            \o TransformEach(Tail(raws), game, source)

\* transform.py:25-71 DataTransformer.transform_matches
TransformMatchesResult(raws, game) ==
    TransformEach(raws, game,
                  IF raws = <<>> THEN "unknown" ELSE raws[1].source)

RECURSIVE DedupFrom(_, _)
DedupFrom(matches, seen) ==
    IF matches = <<>> THEN <<>>
    ELSE LET m == Head(matches)
         IN IF m.match_id # "" /\ m.match_id \notin seen
            THEN <<m>> \o DedupFrom(Tail(matches), seen \cup {m.match_id})
            ELSE DedupFrom(Tail(matches), seen)

\* transform.py:167-182 DataTransformer.deduplicate_matches
DeduplicateMatchesResult(matches) == DedupFrom(matches, {})

\* transform.py:178, the count the method logs as removed duplicates
RemovedCount(matches) == Len(matches) - Len(DeduplicateMatchesResult(matches))

InitTransform ==
    /\ rawIn \in SeqsUpTo(RawPool, MaxRaw)
    /\ gameIn \in {"dota2", "csgo"}
    /\ xformOut = <<>> /\ dedupOut = <<>> /\ xpc = "raw"
    /\ store = EmptyFn /\ loadSeq = 0 /\ loads = <<>>
    /\ IdleForecast
    /\ IdleService /\ IdleRefresh
    /\ IdleExtract /\ IdleRun /\ IdleStats
    /\ IdleConnectors

\* run_pipeline.py:50
TransformMatches ==
    /\ xpc = "raw"
    /\ xformOut' = TransformMatchesResult(rawIn, gameIn)
    /\ xpc' = "transformed"
    /\ UNCHANGED <<rawIn, gameIn, dedupOut, loadVars, fcVars, svcVars,
                   arVars, connVars,
                   extVars, runVars, statVars>>

\* run_pipeline.py:51
DeduplicateMatches ==
    /\ xpc = "transformed"
    /\ dedupOut' = DeduplicateMatchesResult(xformOut)
    /\ xpc' = "deduped"
    /\ UNCHANGED <<rawIn, gameIn, xformOut, loadVars, fcVars, svcVars,
                   arVars, connVars,
                   extVars, runVars, statVars>>

NextTransform == TransformMatches \/ DeduplicateMatches

SpecTransform == InitTransform /\ [][NextTransform]_vars

(***************************************************************************)
(* Properties of the transform stage.                                      *)
(***************************************************************************)
\* positions of the list whose match_id stands at an earlier position too
Repeats(matches) ==
    {i \in DOMAIN matches :
        \E j \in 1..(i - 1) : matches[j].match_id = matches[i].match_id}

RECURSIVE FirstOccurrences(_, _)
FirstOccurrences(matches, i) ==
    IF i > Len(matches) THEN <<>>
    ELSE (IF i \in Repeats(matches) THEN <<>> ELSE <<matches[i]>>)
            \o FirstOccurrences(matches, i + 1)

\* C3: deduplicate_matches returns, for any input list, exactly the first
\* occurrence of each match_id in first-seen order, with no match_id twice,
\* and the number of records removed is the number of input records whose
\* match_id equals that of an earlier record.
C3_DedupFirstOccurrence ==
    xpc = "deduped" =>
        /\ dedupOut = FirstOccurrences(xformOut, 1)
        /\ DistinctIds(dedupOut)
        /\ RemovedCount(xformOut) = Cardinality(Repeats(xformOut))

\* C4: validation enforces the duration bounds: 301 and -1 are rejected,
\* 300 and 0 are accepted, a raw record is emitted exactly when its record
\* passes validation, and every record transform_matches emits has
\* 0 <= duration_minutes <= 300.
C4_DurationBounds ==
    xpc # "raw" =>
        /\ \A i \in DOMAIN xformOut :
              /\ xformOut[i].duration_minutes >= 0
              /\ xformOut[i].duration_minutes <= 300
        /\ \A i \in DOMAIN rawIn :
              LET src == rawIn[1].source
                  cand == Candidate(rawIn[i], gameIn, src)
              IN /\ cand.duration_minutes \in {301, -1}
                      => \A k \in DOMAIN xformOut : xformOut[k] # cand
                 /\ (/\ cand.duration_minutes \in {300, 0}
                     /\ cand.match_date # NULL
                     /\ ~ValidatorResult(rawIn[i], gameIn, src).raised)
                      => \E k \in DOMAIN xformOut : xformOut[k] = cand

C4_Witness ==
    /\ xpc # "raw"
    /\ \E i, j, k \in DOMAIN rawIn :
          /\ Candidate(rawIn[i], gameIn, rawIn[1].source).duration_minutes = 301
          /\ Candidate(rawIn[j], gameIn, rawIn[1].source).duration_minutes = 300
          /\ Candidate(rawIn[k], gameIn, rawIn[1].source).duration_minutes = -1
    /\ \E k \in DOMAIN xformOut : xformOut[k].duration_minutes = 300

\* the source transform_matches takes the field map of (transform.py:28)
BatchSource == IF rawIn = <<>> THEN "unknown" ELSE rawIn[1].source

\* the raw record carries no date, under the canonical or the source name
NoDateCarried(r) == r.match_date.kind = "none" /\ r.start_time.kind = "none"

\* C18: a raw record that carries no match_id, or no match_date, is
\* dropped by transform_matches and is not in the output.
C18_RequiredFields ==
    xpc # "raw" =>
        \A i \in DOMAIN rawIn :
            (rawIn[i].match_id = "" \/ NoDateCarried(rawIn[i])) =>
                \A k \in DOMAIN xformOut :
                    xformOut[k] # Candidate(rawIn[i], gameIn, BatchSource)

\* the raw record's own date cannot be read
BadDate(r) == r.match_date.kind \in {"bad", "epoch_bad"}

\* a raw record in canonical form with a key, a readable date and a
\* duration within bounds
CanonicalValid(r) ==
    /\ r.match_id # ""
    /\ r.match_date.kind \in {"datetime", "epoch", "iso", "isoz", "fmt"}
    /\ r.start_time.kind = "none" /\ r.duration = NULL
    /\ r.duration_minutes = NULL
          \/ (r.duration_minutes >= 0 /\ r.duration_minutes <= 300)

\* the record a valid raw record is emitted as
Emitted(r, game) ==
    MatchRec(r.match_id, game, r.match_date.day,
             IF r.duration_minutes = NULL THEN 0 ELSE r.duration_minutes,
             r.source, FALSE)

RECURSIVE EmittedOfValid(_, _)
EmittedOfValid(raws, game) ==
    IF raws = <<>> THEN <<>>
    ELSE (IF CanonicalValid(Head(raws))
          THEN <<Emitted(Head(raws), game)>> ELSE <<>>)
            \o EmittedOfValid(Tail(raws), game)

\* C19: one record with an unparseable match_date does not fail the batch:
\* it is omitted, and every other, valid record is emitted exactly once,
\* in input order, with its match_id and with the game_id argument.
C19_BadDateOmitted ==
    (/\ xpc # "raw"
     /\ \A i \in DOMAIN rawIn :
            BadDate(rawIn[i]) \/ CanonicalValid(rawIn[i])) =>
        xformOut = EmittedOfValid(rawIn, gameIn)

C19_Witness ==
    /\ xpc # "raw"
    /\ Len(rawIn) = 3
    /\ CanonicalValid(rawIn[1]) /\ BadDate(rawIn[2]) /\ CanonicalValid(rawIn[3])
    /\ rawIn[1].match_id # rawIn[3].match_id
    /\ Len(xformOut) = 2

RECURSIVE OwnMapEach(_, _)
OwnMapEach(raws, game) ==
    IF raws = <<>> THEN <<>>
    ELSE TransformOne(Head(raws), game, Head(raws).source)
            \o OwnMapEach(Tail(raws), game)

\* C20: every raw record is translated with the field map of its own
\* (game, source) pair (start_time to match_date, duration to
\* duration_minutes), also when the batch holds records of two sources.
C20_OwnFieldMap ==
    xpc # "raw" => xformOut = OwnMapEach(rawIn, gameIn)

(***************************************************************************)
(* Forecasting service.                                                    *)
(***************************************************************************)
Today == 40            \* the day datetime.now() falls on

HistoryWindow == 30    \* days the history query looks back

MinHistoryDays == 7    \* rows below which the naive path is taken

BaseValue == 1000      \* baseline of the naive forecast

Games == {"dota2", "csgo"}

GameRows(db, game) == {id \in DOMAIN db : db[id].game_id = game}

\* distinct days on which the store holds a match of the game
GameDays(db, game) == {db[id].match_date : id \in GameRows(db, game)}

\* forecasting.py:77-93, WHERE match_date >= now - 30 days
WindowDays(db, game) ==
    {d \in GameDays(db, game) : d >= Today - HistoryWindow}

MatchCount(db, game, day) ==
    Cardinality({id \in GameRows(db, game) : db[id].match_date = day})

SetMin(S) == CHOOSE m \in S : \A x \in S : m <= x

SetMax(S) == CHOOSE m \in S : \A x \in S : m >= x

RECURSIVE SortDays(_)
SortDays(S) ==
    IF S = {} THEN <<>>
    ELSE <<SetMin(S)>> \o SortDays(S \ {SetMin(S)})

\* forecasting.py:72-109 _get_historical_match_data: one row per day,
\* ordered by date; an exception of the query gives the empty list
GetHistoricalMatchData(db, game, queryFails) ==
    IF queryFails THEN <<>>
    ELSE LET days == SortDays(WindowDays(db, game))
         IN [i \in DOMAIN days |->
                [date |-> days[i],
                 match_count |-> MatchCount(db, game, days[i])]]

\* forecasting.py:34-39, the daily series with player_count
DailySeries(hist) ==
    [i \in DOMAIN hist |->
        [date |-> hist[i].date, player_count |-> hist[i].match_count * 10]]

ForecastRec(game, date, value, lower, upper) ==
    [game_id |-> game, forecast_date |-> date,
     predicted_metric |-> "player_count", predicted_value |-> value,
     confidence_interval_lower |-> lower,
     confidence_interval_upper |-> upper]

\* a naive forecaster whose loop stops one day early
SimpleForecastsShort(game, days) ==
    [i \in 1..(days - 1) |->
        ForecastRec(game, Today + i, BaseValue,
                    (BaseValue * 8) \div 10, (BaseValue * 12) \div 10)]

\* forecasting.py:111-130 _generate_simple_forecasts
SimpleForecasts(game, days) ==
    [i \in 1..days |->
        ForecastRec(game, Today + i, BaseValue,
                    (BaseValue * 8) \div 10, (BaseValue * 12) \div 10)]

\* models.py:139-143, train_test_split(test_size=0.2, shuffle=False) keeps
\* the first n - ceil(0.2 n) rows for fitting
TrainRows(n) == n - ((n + 4) \div 5)

\* models.py:119-153 train: the fitted forest predicts within the range of
\* the targets it was fitted on
Trained(df) ==
    LET targets == {df[i].player_count : i \in 1..TrainRows(Len(df))}
    IN [is_trained |-> TRUE, lo |-> SetMin(targets), hi |-> SetMax(targets)]

RECURSIVE SeqSum(_)
SeqSum(q) == IF q = <<>> THEN 0 ELSE Head(q) + SeqSum(Tail(q))

ISqrt(n) == CHOOSE r \in 0..n : r * r <= n /\ (r + 1) * (r + 1) > n

\* numpy.std, the population standard deviation
StdDev(preds) ==
    LET n == Len(preds)
        mean == SeqSum(preds) \div n
        sq == [i \in DOMAIN preds |-> (preds[i] - mean) * (preds[i] - mean)]
    IN ISqrt(SeqSum(sq) \div n)

\* models.py:185
IntervalStd(preds) ==
    IF Len(preds) > 1 THEN StdDev(preds) ELSE preds[1] \div 10

\* a band whose two ends are exchanged
ForecastRowSwapped(game, date, pred, std) ==
    ForecastRec(game, date, pred,
                pred + (196 * std) \div 100, pred - (196 * std) \div 100)

\* models.py:179-187 and forecasting.py:58-68, one forecast row
ForecastRow(game, date, pred, std) ==
    ForecastRec(game, date, pred,
                pred - (196 * std) \div 100, pred + (196 * std) \div 100)

\* models.py:155-189 forecast, for the predictions the model returns
ModelForecasts(game, df, preds) ==
    LET last == df[Len(df)].date
        std == IntervalStd(preds)
    IN [i \in DOMAIN preds |-> ForecastRow(game, last + i, preds[i], std)]

\* prediction vectors the fitted forest can return: each value lies in the
\* range of the targets; the band depends on the values only, not on their
\* order, so the low ones are put first
PredChoices(model, days) ==
    {[i \in 1..days |-> IF i <= k THEN model.lo ELSE model.hi] : k \in 0..days}

CallSummary(game, days, path, cause, result, db, fault) ==
    [game |-> game, days |-> days, path |-> path, cause |-> cause,
     result |-> result, query_failed |-> (fault = "query"),
     fault |-> fault, was_trained |-> forecaster.is_trained,
     stored_days |-> Cardinality(GameDays(db, game)),
     window_days |-> Cardinality(WindowDays(db, game))]

\* an except branch that lets the exception through to the caller
OnModelErrorRaising(game, days, cause) ==
    [path |-> "raised", cause |-> cause, result |-> <<>>]

\* forecasting.py:45-47 and 52-54, the except branches around train and
\* forecast: the naive forecast is returned
OnModelError(game, days, cause) ==
    [path |-> "naive", cause |-> cause, result |-> SimpleForecasts(game, days)]

\* what can go wrong in one call:
\*   query  the history query raises
\*   fit    train raises before is_trained is set
\*   save   train raises in save_model, after is_trained is set
\*   infer  forecast raises
Faults == {"none", "query", "fit", "save", "infer"}

\* forecasting.py:22-70 generate_player_count_forecasts
GenerateForecasts ==
    \E game \in Games, days \in 1..MaxDays, fault \in Faults :
       LET hist == GetHistoricalMatchData(store, game, fault = "query")
           df == DailySeries(hist)
           naive == SimpleForecasts(game, days)
           trainErr == OnModelError(game, days, "train_error")
           inferErr == OnModelError(game, days, "infer_error")
       IN /\ IF Len(hist) < MinHistoryDays
             THEN /\ forecaster' = forecaster
                  /\ fcLast' = CallSummary(game, days, "naive",
                                   "insufficient", naive, store, fault)
             ELSE IF ~forecaster.is_trained /\ fault = "fit"
             THEN /\ forecaster' = forecaster
                  /\ fcLast' = CallSummary(game, days, trainErr.path,
                                   trainErr.cause, trainErr.result, store,
                                   fault)
             ELSE IF ~forecaster.is_trained /\ fault = "save"
             THEN /\ forecaster' = Trained(df)
                  /\ fcLast' = CallSummary(game, days, trainErr.path,
                                   trainErr.cause, trainErr.result, store,
                                   fault)
             ELSE /\ forecaster' = IF forecaster.is_trained THEN forecaster
                                   ELSE Trained(df)
                  /\ IF fault = "infer"
                     THEN fcLast' = CallSummary(game, days, inferErr.path,
                                   inferErr.cause, inferErr.result, store,
                                   fault)
                     ELSE \E preds \in PredChoices(forecaster', days) :
                            fcLast' = CallSummary(game, days, "model", "none",
                                          ModelForecasts(game, df, preds),
                                          store, fault)
          /\ UNCHANGED <<loadVars, xformVars, connVars, svcVars, arVars,
                         extVars, runVars, statVars>>

(***************************************************************************)
(* Stores the forecasting service can find: what earlier pipeline runs     *)
(* left in the matches table.                                              *)
(***************************************************************************)
HistRow(game, day, n) ==
    NewRow(MatchRec("h_" \o game \o "_" \o ToString(day) \o "_" \o ToString(n),
                    game, day, 30, "opendota_api", FALSE), 0)

\* one match on each day of the set, and a second one on the days of twice
HistRows(game, days, twice) ==
    {HistRow(game, d, 1) : d \in days} \cup {HistRow(game, d, 2) : d \in twice}

HistoryStores ==
    { EmptyFn,
      StoreOf(HistRows("dota2", 37..39, {})),
      StoreOf(HistRows("dota2", 33..39, {34})),
      StoreOf(HistRows("dota2", 32..39, {33, 39})
                 \cup HistRows("csgo", 33..39, {})),
      StoreOf(HistRows("dota2", 1..7, {2})),
      StoreOf(HistRows("dota2", (6..9) \cup (36..39), {})
                 \cup HistRows("csgo", 34..39, {35})) }

InitForecast ==
    /\ store \in HistoryStores
    /\ loadSeq = 0 /\ loads = <<>>
    /\ IdleTransform
    /\ IdleForecast
    /\ IdleService /\ IdleRefresh
    /\ IdleExtract /\ IdleRun /\ IdleStats
    /\ IdleConnectors

NextForecast == GenerateForecasts

SpecForecast == InitForecast /\ [][NextForecast]_vars

(***************************************************************************)
(* Properties of the forecasting service.                                  *)
(***************************************************************************)
Called == fcLast.path # "none"

\* C5: every forecast record generate_player_count_forecasts returns, on
\* the model path and on the naive path and for every horizon days >= 1,
\* has confidence_interval_lower <= predicted_value <=
\* confidence_interval_upper.
C5_IntervalOrdered ==
    Called =>
        \A i \in DOMAIN fcLast.result :
            /\ fcLast.result[i].confidence_interval_lower
                  <= fcLast.result[i].predicted_value
            /\ fcLast.result[i].predicted_value
                  <= fcLast.result[i].confidence_interval_upper

C5_Witness ==
    /\ Called
    /\ fcLast.path = "model"
    /\ fcLast.days = 1
    /\ fcLast.result[1].confidence_interval_lower
          < fcLast.result[1].predicted_value

IsNaive(call) ==
    /\ Len(call.result) = call.days
    /\ \A i \in DOMAIN call.result :
          /\ call.result[i].game_id = call.game
          /\ call.result[i].predicted_value = BaseValue
          /\ call.result[i].confidence_interval_lower * 100 = BaseValue * 80
          /\ call.result[i].confidence_interval_upper * 100 = BaseValue * 120

FewStoredDays(call) == call.stored_days < 7 \/ call.query_failed

\* C6 as stated: with fewer than 7 distinct stored days for the game, or a
\* failed history query, the call returns exactly `days` naive forecasts
\* (baseline, 80% and 120% of it); with 7 or more distinct stored days it
\* leaves the naive path to training and inference failures.
C6_FallbackOnStoredDays ==
    Called =>
        /\ FewStoredDays(fcLast) => (fcLast.path = "naive" /\ IsNaive(fcLast))
        /\ (~FewStoredDays(fcLast) /\ fcLast.path = "naive")
              => fcLast.cause \in {"train_error", "infer_error"}

FewWindowDays(call) == call.window_days < 7 \/ call.query_failed

\* C6 amended: the days that count are the distinct days of the last 30
\* days, the window the history query reads.
C6_FallbackOnWindowDays ==
    Called =>
        /\ FewStoredDays(fcLast) => (fcLast.path = "naive" /\ IsNaive(fcLast))
        /\ FewWindowDays(fcLast) => (fcLast.path = "naive" /\ IsNaive(fcLast))
        /\ (~FewWindowDays(fcLast) /\ fcLast.path = "naive")
              => fcLast.cause \in {"train_error", "infer_error"}

C6_Witness ==
    /\ Called
    /\ fcLast.stored_days >= 7
    /\ fcLast.window_days \in 1..6
    /\ ~fcLast.query_failed
    /\ fcLast.path = "naive"
    /\ fcLast.days = 3

\* training or inference raised inside the call
ModelRaised(call) ==
    \/ call.fault \in {"fit", "save"} /\ ~call.was_trained
    \/ call.fault = "infer"

\* C14: with 7 or more days of history, an exception raised by train or by
\* forecast is caught inside generate_player_count_forecasts: the call
\* returns exactly `days` naive forecast records and raises nothing.
C14_ModelErrorFallsBack ==
    (Called /\ ~FewWindowDays(fcLast) /\ ModelRaised(fcLast)) =>
        /\ fcLast.path = "naive"
        /\ fcLast.cause \in {"train_error", "infer_error"}
        /\ IsNaive(fcLast)

C14_Witness ==
    /\ Called
    /\ ~FewWindowDays(fcLast)
    /\ fcLast.fault = "infer"
    /\ fcLast.was_trained
    /\ fcLast.path = "naive"
    /\ fcLast.days = MaxDays

(***************************************************************************)
(* Rate-limited connectors.                                                *)
(***************************************************************************)
TicksPerSecond == 10000

RetryCount == 3        \* base_connector.py:18

Latency == 500         \* ticks one HTTP attempt takes (50 ms)

\* api_config.py:18,22,27, the configured budgets
RateLimit(c) ==
    CASE c = "opendota" -> 60
      [] c = "steam" -> 100000
      [] c = "riot" -> 100

\* api_config.py:18,22,27, the interval each budget is given for, in
\* seconds: per minute, per day, per 2 minutes
IntervalLength(c) ==
    CASE c = "opendota" -> 60
      [] c = "steam" -> 86400
      [] c = "riot" -> 120

\* base_connector.py:24, 60 / rate_limit
MinRequestInterval(c) == (60 * TicksPerSecond) \div RateLimit(c)

\* interval length / requests per interval
BudgetInterval(c) == (IntervalLength(c) * TicksPerSecond) \div RateLimit(c)

\* What the endpoint does to one session.get: nfail attempts in a row end
\* in 429, 5xx, a timeout or a connection error; the attempt after them,
\* if the adapter makes it, ends in final: a JSON body with data, an empty
\* JSON body, or a status raise_for_status rejects (404).
RequestOutcomes ==
    {[nfail |-> n, final |-> "json"] : n \in 0..RetryCount}
    \cup {[nfail |-> 0, final |-> f] : f \in {"empty", "http_error"}}
    \cup {[nfail |-> RetryCount + 1, final |-> "exhausted"]}

\* base_connector.py:29-33 Retry(total=retry_count): the first attempt and
\* up to retry_count retries
Attempts(o) == Min(o.nfail, RetryCount) + 1

RECURSIVE Pow2(_)
Pow2(n) == IF n = 0 THEN 1 ELSE 2 * Pow2(n - 1)

\* urllib3 sleeps backoff_factor * 2^(k-1) seconds before retry k, and not
\* at all before the first retry
Backoff(k) == IF k <= 1 THEN 0 ELSE Pow2(k - 1) * TicksPerSecond

RECURSIVE AttemptStart(_, _)
AttemptStart(t0, k) ==
    IF k = 1 THEN t0
    ELSE AttemptStart(t0, k - 1) + Latency + Backoff(k - 1)

MinGap(g, h) == IF g = NULL THEN h ELSE IF h = NULL THEN g ELSE Min(g, h)

\* the connector after its session sent the attempts of one get from t0 on
AfterAttempts(cs, t0, n) ==
    LET first == IF cs.http_last = NULL THEN NULL ELSE t0 - cs.http_last
        retry == IF n >= 2 THEN Latency ELSE NULL
    IN [cs EXCEPT !.http_last = AttemptStart(t0, n),
                  !.min_gap = MinGap(cs.min_gap, MinGap(first, retry))]

\* a _make_request whose except clause lets the exhausted retries through
MakeRequestResultRaising(final) ==
    IF final = "http_error" THEN "None"
    ELSE IF final = "exhausted" THEN "raised"
    ELSE final

\* base_connector.py:57-63, every RequestException becomes None
MakeRequestResult(final) ==
    IF final \in {"http_error", "exhausted"} THEN "None" ELSE final

\* A connector call in progress: w = [clock, cs, requests].
StartCall(c) == [clock |-> clock, cs |-> conn[c], requests |-> <<>>]

RequestSummary(via, o, result) ==
    [via |-> via, attempts |-> Attempts(o), final |-> o.final,
     result |-> result]

\* base_connector.py:39-49 _rate_limit_check, the time after the sleep
RateLimited(w, c) ==
    LET since == w.clock - w.cs.last_request_time
    IN IF since < MinRequestInterval(c)
       THEN w.clock + (MinRequestInterval(c) - since)
       ELSE w.clock

\* base_connector.py:51-63 _make_request
MakeRequest(w, c, o) ==
    LET t0 == RateLimited(w, c)
        n == Attempts(o)
    IN [clock |-> AttemptStart(t0, n) + Latency,
        cs |-> [AfterAttempts(w.cs, t0, n) EXCEPT !.last_request_time = t0],
        requests |-> Append(w.requests,
                        RequestSummary("make_request", o,
                                       MakeRequestResult(o.final)))]

\* steam_api.py:135-149 _fetch_game_info, session.get without the limiter;
\* every exception becomes None
FetchGameInfo(w, c, o) ==
    LET n == Attempts(o)
    IN [clock |-> AttemptStart(w.clock, n) + Latency,
        cs |-> AfterAttempts(w.cs, w.clock, n),
        requests |-> Append(w.requests,
                        RequestSummary("session_get", o,
                            IF o.final = "json" THEN "json" ELSE "None"))]

LastResult(w) == w.requests[Len(w.requests)].result

FetchSummary(c, op, kind, w) ==
    [path |-> "fetch", connector |-> c, op |-> op, has_key |-> apiKey[c],
     kind |-> kind, requests |-> w.requests, ended |-> w.clock]

\* the call returns (or raises, kind = "raised")
Return(c, op, kind, w) ==
    /\ clock' = w.clock
    /\ conn' = [conn EXCEPT ![c] = w.cs]
    /\ fetchLast' = FetchSummary(c, op, kind, w)
    /\ nFetch' = nFetch + 1
    /\ UNCHANGED <<apiKey, loadVars, xformVars, fcVars, svcVars,
                   arVars,
                   extVars, runVars, statVars>>

\* what a method without a try block does with the result of _make_request
DataOrMock(w) ==
    CASE LastResult(w) = "raised" -> "raised"
      [] LastResult(w) = "json" -> "real"
      [] OTHER -> "mock"

\* opendota_api.py:28-55 OpenDotaAPIConnector.fetch_data
OpenDotaFetchData ==
    /\ nFetch < MaxFetches
    /\ \E o1 \in RequestOutcomes :
          LET w1 == MakeRequest(StartCall("opendota"), "opendota", o1)
          IN IF LastResult(w1) = "json"
             THEN Return("opendota", "fetch_data", "real", w1)
             ELSE IF LastResult(w1) = "raised"
             THEN Return("opendota", "fetch_data", "empty", w1)
             ELSE \E o2 \in RequestOutcomes :
                    LET w2 == MakeRequest(w1, "opendota", o2)
                    IN Return("opendota", "fetch_data",
                              IF LastResult(w2) = "json" THEN "real"
                              ELSE "empty", w2)

\* steam_api.py:82-133 SteamAPIConnector.fetch_data
SteamFetchData ==
    /\ nFetch < MaxFetches
    /\ IF ~apiKey["steam"]
       THEN Return("steam", "fetch_data", "empty", StartCall("steam"))
       ELSE \E o \in RequestOutcomes :
              LET w == FetchGameInfo(StartCall("steam"), "steam", o)
              IN Return("steam", "fetch_data",
                        IF LastResult(w) = "json" THEN "derived" ELSE "empty",
                        w)

\* steam_api.py:36-57 SteamAPIConnector.fetch_player_stats
SteamFetchPlayerStats ==
    /\ nFetch < MaxFetches
    /\ IF ~apiKey["steam"]
       THEN Return("steam", "fetch_player_stats", "mock", StartCall("steam"))
       ELSE \E o \in RequestOutcomes :
              LET w == MakeRequest(StartCall("steam"), "steam", o)
              IN Return("steam", "fetch_player_stats", DataOrMock(w), w)

\* steam_api.py:59-80 SteamAPIConnector.fetch_recent_matches
SteamFetchRecentMatches ==
    /\ nFetch < MaxFetches
    /\ IF ~apiKey["steam"]
       THEN Return("steam", "fetch_recent_matches", "mock",
                   StartCall("steam"))
       ELSE \E o \in RequestOutcomes :
              LET w == MakeRequest(StartCall("steam"), "steam", o)
              IN Return("steam", "fetch_recent_matches", DataOrMock(w), w)

\* riot_api.py:29-48 RiotAPIConnector.fetch_data
RiotFetchData ==
    /\ nFetch < MaxFetches
    /\ Return("riot", "fetch_data", "empty", StartCall("riot"))

\* riot_api.py:50-67 RiotAPIConnector.fetch_match_history
RiotFetchMatchHistory ==
    /\ nFetch < MaxFetches
    /\ IF ~apiKey["riot"]
       THEN Return("riot", "fetch_match_history", "mock", StartCall("riot"))
       ELSE \E o \in RequestOutcomes :
              LET w == MakeRequest(StartCall("riot"), "riot", o)
              IN Return("riot", "fetch_match_history", DataOrMock(w), w)

\* time passes between two calls; once per call keeps the clock bounded
TickSteps == {Latency, 2 * TicksPerSecond}

Tick ==
    /\ nFetch < MaxFetches
    /\ fetchLast # NoCall
    /\ clock = fetchLast.ended
    /\ \E d \in TickSteps : clock' = clock + d
    /\ UNCHANGED <<conn, apiKey, fetchLast, nFetch, loadVars, xformVars,
                   fcVars, svcVars,
                   arVars,
                   extVars, runVars, statVars>>

\* api_config.py:16,25: the keys come from the environment; OpenDota needs
\* none
InitConnectors ==
    /\ clock = StartClock
    /\ conn = [c \in Connectors |-> FreshConnector]
    /\ apiKey \in {k \in [Connectors -> BOOLEAN] : ~k["opendota"]}
    /\ fetchLast = NoCall
    /\ nFetch = 0
    /\ store = EmptyFn /\ loadSeq = 0 /\ loads = <<>>
    /\ IdleTransform
    /\ IdleForecast
    /\ IdleService /\ IdleRefresh
    /\ IdleExtract /\ IdleRun /\ IdleStats

NextConnectors ==
    \/ OpenDotaFetchData
    \/ SteamFetchData
    \/ SteamFetchPlayerStats
    \/ SteamFetchRecentMatches
    \/ RiotFetchData
    \/ RiotFetchMatchHistory
    \/ Tick

SpecConnectors == InitConnectors /\ [][NextConnectors]_vars

(***************************************************************************)
(* Properties of the connectors.                                           *)
(***************************************************************************)
Fetched == fetchLast # NoCall

\* C7: any two successive HTTP requests of a connector instance start at
\* least min_interval apart, min_interval being the interval length of the
\* source divided by its requests-per-interval budget.
C7_RateLimitRespected ==
    \A c \in Connectors :
        conn[c].min_gap # NULL => conn[c].min_gap >= BudgetInterval(c)

NeedsKey(c) == c \in {"steam", "riot"}

\* C9: with no API credential configured for a source, every fetch
\* operation of its connector returns an empty result and never synthetic
\* or mock records.
C9_NoKeyNoData ==
    (Fetched /\ NeedsKey(fetchLast.connector) /\ ~fetchLast.has_key)
        => fetchLast.kind = "empty"

SourceDown(call) ==
    /\ call.requests # <<>>
    /\ \A i \in DOMAIN call.requests : call.requests[i].final = "exhausted"

\* C10: _make_request returns None instead of raising on a connection
\* error, timeout or 429/5xx left after the retries, and fetch_data of
\* every connector then returns a list, empty when the source is down,
\* instead of raising.
C10_TransientFailureContained ==
    Fetched =>
        /\ \A i \in DOMAIN fetchLast.requests :
              LET r == fetchLast.requests[i]
              IN (r.via = "make_request" /\ r.final = "exhausted")
                    => r.result = "None"
        /\ fetchLast.op = "fetch_data" =>
              /\ fetchLast.kind # "raised"
              /\ SourceDown(fetchLast) => fetchLast.kind = "empty"

C10_Witness ==
    /\ Fetched
    /\ fetchLast.connector = "opendota"
    /\ fetchLast.op = "fetch_data"
    /\ Len(fetchLast.requests) = 2
    /\ SourceDown(fetchLast)
    /\ fetchLast.requests[1].attempts = RetryCount + 1
    /\ fetchLast.kind = "empty"

(***************************************************************************)
(* The pipeline on an empty store: one game's raw records are transformed, *)
(* deduplicated and loaded, then forecasts are asked for.                  *)
(***************************************************************************)
\* records as the connectors hand them over (opendota_api.py:156-166)
ExtractPool ==
    { Raw("m1", DateVal("iso", 38), 45, NoDate, NULL, "opendota_api"),
      Raw("m2", DateVal("epoch", 39), 30, NoDate, NULL, "opendota_api"),
      Raw("m3", DateVal("datetime", 39), 0, NoDate, NULL, "opendota_api"),
      Raw("m4", DateVal("fmt", 37), 300, NoDate, NULL, "opendota_api"),
      Raw("m5", DateVal("bad", NULL), 30, NoDate, NULL, "opendota_api"),
      Raw("m1", DateVal("isoz", 36), 50, NoDate, NULL, "opendota_api") }

\* lists of distinct records of the pool
Extractions ==
    {q \in SeqsUpTo(ExtractPool, MaxExtract) :
        \A i, j \in DOMAIN q : i # j => q[i] # q[j]}

DefaultBatchSize == 100    \* load.py:22

InitPipeline ==
    /\ store = EmptyFn /\ loadSeq = 0 /\ loads = <<>>
    /\ IdleTransform
    /\ IdleForecast
    /\ IdleService /\ IdleRefresh
    /\ IdleExtract /\ IdleRun /\ IdleStats
    /\ IdleConnectors

\* run_pipeline.py:43-55, the body of the loop for one game with records:
\* transform_matches, deduplicate_matches, load_matches
ProcessGame ==
    /\ loads = <<>>
    /\ \E raws \in Extractions \ {<<>>}, game \in Games, fail \in 0..1 :
          LET transformed == TransformMatchesResult(raws, game)
              unique == DeduplicateMatchesResult(transformed)
              res == LoadMatchesResult(store, unique, DefaultBatchSize,
                                       fail, loadSeq + 1)
          IN /\ rawIn' = raws
             /\ gameIn' = game
             /\ xformOut' = transformed
             /\ dedupOut' = unique
             /\ xpc' = "loaded"
             /\ store' = res.db
             /\ loadSeq' = loadSeq + 1
             /\ loads' = Append(loads, LoadSummary(unique, DefaultBatchSize,
                                                   fail, store, res))
    /\ UNCHANGED <<fcVars, svcVars,
                   arVars, connVars,
                   extVars, runVars, statVars>>

\* one forecast call per behaviour is followed
NextPipeline == ProcessGame \/ (fcLast = NoCall /\ GenerateForecasts)

SpecPipeline == InitPipeline /\ [][NextPipeline]_vars

(***************************************************************************)
(* Properties of the pipeline.                                             *)
(***************************************************************************)
DateUnparseable(r) == r.match_date.kind \in {"bad", "epoch_bad"}

\* a raw record with a key, a readable date and a duration within bounds
RawValid(r) ==
    /\ r.match_id # ""
    /\ r.match_date.kind \in {"datetime", "epoch", "iso", "isoz", "fmt"}
    /\ r.duration_minutes = NULL
          \/ (r.duration_minutes >= 0 /\ r.duration_minutes <= 300)

FiveRawOneBadDate ==
    /\ xpc = "loaded"
    /\ Len(rawIn) = 5
    /\ LastLoad.before = EmptyFn
    /\ ~EnvFailed(LastLoad)
    /\ \E b \in DOMAIN rawIn :
          /\ DateUnparseable(rawIn[b])
          /\ \A i \in DOMAIN rawIn \ {b} : RawValid(rawIn[i])
          /\ \A i, j \in DOMAIN rawIn \ {b} :
                i # j => rawIn[i].match_id # rawIn[j].match_id

\* C8: on an empty store, 5 raw records of a game, 1 with an unparseable
\* date and 4 valid with distinct match_ids, give 4 records after
\* transform_matches and deduplicate_matches, load_matches reports
\* inserted = 4 and errors = 0, and a following forecast call for the game
\* with days = 7 returns 7 naive forecast records for that game.
C8_EndToEnd ==
    FiveRawOneBadDate =>
        /\ Len(xformOut) = 4
        /\ Len(dedupOut) = 4
        /\ LastLoad.stats.inserted = 4
        /\ LastLoad.stats.errors = 0
        /\ (Called /\ fcLast.game = gameIn /\ fcLast.days = 7) =>
              /\ fcLast.path = "naive"
              /\ Len(fcLast.result) = 7
              /\ IsNaive(fcLast)

C8_Witness ==
    /\ FiveRawOneBadDate
    /\ Called /\ fcLast.game = gameIn /\ fcLast.days = 7
    /\ Cardinality(DOMAIN store) = 4

(***************************************************************************)
(* Extraction orchestrator, DataExtractor.extract_all_games.  A connector  *)
(* call either raises or returns a list; the orchestrator is written for   *)
(* both, whatever the connectors of today do.                              *)
(***************************************************************************)
MaxPerCall == 2    \* most records one connector call returns

TrackedGames == {"dota2", "csgo", "valorant", "gta5", "pubg", "cod"}

\* extract.py:32-75, the connector calls in the order they are made
ExtractCalls ==
    << [call |-> "opendota_dota2", game |-> "dota2", source |-> "opendota_api"],
       [call |-> "steam_dota2", game |-> "dota2", source |-> "steam_api"],
       [call |-> "steam_csgo", game |-> "csgo", source |-> "steam_api"],
       [call |-> "riot_valorant", game |-> "valorant", source |-> "riot_api"],
       [call |-> "steam_gta5", game |-> "gta5", source |-> "steam_api"] >>

\* record number i of a connector call: match_id, ISO date, minutes as the
\* connector builds them (opendota_api.py:156-166, steam_api.py:110-118);
\* the second OpenDota match lasted longer than 5 hours
ConnectorRecord(c, i) ==
    Raw(c.call \o "_" \o ToString(i), DateVal("iso", Today - i),
        IF c.source = "opendota_api" THEN (IF i = 2 THEN 301 ELSE 40) ELSE 0,
        NoDate, NULL, c.source)

ConnectorData(c, n) == [i \in 1..n |-> ConnectorRecord(c, i)]

\* what a call of fetch_data can do: raise, or return 0..MaxPerCall records
\* (riot_api.py:29-48 returns no record)
CallOutcomes(c) ==
    {[raised |-> TRUE, data |-> <<>>]}
    \cup {[raised |-> FALSE, data |-> ConnectorData(c, n)] :
            n \in 0..(IF c.source = "riot_api" THEN 0 ELSE MaxPerCall)}

\* results[game] = list
Put(res, game, list) ==
    [g \in DOMAIN res \cup {game} |-> IF g = game THEN list ELSE res[g]]

\* an orchestrator that leaves the key out when the call raises
AssignResultOmitting(res, game, o) ==
    IF o.raised THEN res ELSE Put(res, game, o.data)

\* extract.py:33-39, 51-57, 60-66, 69-75: the key is set to what the call
\* returned, or to the empty list in the except branch
AssignResult(res, game, o) ==
    Put(res, game, IF o.raised THEN <<>> ELSE o.data)

\* a backup source that replaces the list of the first source
ExtendResultOverwriting(res, game, o) ==
    IF o.raised THEN res ELSE Put(res, game, o.data)

\* extract.py:42-48: the backup source extends the list of the game; a
\* missing key is a KeyError, caught by the except branch like any other
ExtendResult(res, game, o) ==
    IF o.raised \/ o.data = <<>> \/ game \notin DOMAIN res THEN res
    ELSE Put(res, game, res[game] \o o.data)

CallLog(c, o) == [call |-> c.call, game |-> c.game, raised |-> o.raised,
                  data |-> o.data]

\* one try block of extract_all_games whose call sets the key of its game
ExtractFirstSource(k, next) ==
    /\ epc = ExtractCalls[k].call
    /\ \E o \in CallOutcomes(ExtractCalls[k]) :
          /\ results' = AssignResult(results, ExtractCalls[k].game, o)
          /\ calls' = Append(calls, CallLog(ExtractCalls[k], o))
    /\ epc' = next
    /\ UNCHANGED <<loadVars, xformVars, fcVars, svcVars,
                   arVars, connVars, runVars, statVars>>

\* extract.py:32-39
ExtractOpenDotaDota2 == ExtractFirstSource(1, "steam_dota2")

\* extract.py:41-48
ExtractSteamDota2 ==
    /\ epc = ExtractCalls[2].call
    /\ \E o \in CallOutcomes(ExtractCalls[2]) :
          /\ results' = ExtendResult(results, ExtractCalls[2].game, o)
          /\ calls' = Append(calls, CallLog(ExtractCalls[2], o))
    /\ epc' = "steam_csgo"
    /\ UNCHANGED <<loadVars, xformVars, fcVars, svcVars,
                   arVars, connVars, runVars, statVars>>

\* extract.py:50-57
ExtractSteamCsgo == ExtractFirstSource(3, "riot_valorant")

\* extract.py:59-66
ExtractRiotValorant == ExtractFirstSource(4, "steam_gta5")

\* extract.py:68-75
ExtractSteamGta5 == ExtractFirstSource(5, "no_source")

\* extract.py:77-88: pubg and cod have no source; the dict is returned
ExtractNoSource ==
    /\ epc = "no_source"
    /\ results' = Put(Put(results, "pubg", <<>>), "cod", <<>>)
    /\ epc' = "returned"
    /\ UNCHANGED <<calls, loadVars, xformVars, fcVars, svcVars,
                   arVars, connVars, runVars,
                   statVars>>

ExtractAllGames ==
    \/ ExtractOpenDotaDota2
    \/ ExtractSteamDota2
    \/ ExtractSteamCsgo
    \/ ExtractRiotValorant
    \/ ExtractSteamGta5
    \/ ExtractNoSource

InitExtract ==
    /\ results = <<>> /\ epc = "opendota_dota2" /\ calls = <<>>
    /\ store = EmptyFn /\ loadSeq = 0 /\ loads = <<>>
    /\ IdleTransform
    /\ IdleForecast
    /\ IdleService /\ IdleRefresh
    /\ IdleRun /\ IdleStats
    /\ IdleConnectors

NextExtract == ExtractAllGames

SpecExtract == InitExtract /\ [][NextExtract]_vars

(***************************************************************************)
(* Properties of the extraction orchestrator.                              *)
(***************************************************************************)
\* the calls made for a game, in order
CallsOf(game) == SelectSeq(calls, LAMBDA c : c.game = game)

\* every call made for the game raised or returned nothing
AllSourcesFailed(game) ==
    \A i \in DOMAIN calls :
        calls[i].game = game => (calls[i].raised \/ calls[i].data = <<>>)

\* C11: the map extract_all_games returns has a key for each of the six
\* tracked games whatever the connector calls did, and a game with no
\* source (pubg, cod) or whose sources all failed maps to the empty list.
C11_EveryGameHasKey ==
    epc = "returned" =>
        /\ DOMAIN results = TrackedGames
        /\ results["pubg"] = <<>>
        /\ results["cod"] = <<>>
        /\ \A g \in TrackedGames : AllSourcesFailed(g) => results[g] = <<>>

C11_Witness ==
    /\ epc = "returned"
    /\ \A i \in DOMAIN calls : calls[i].raised
    /\ Len(calls) = 5

RECURSIVE Contribution(_)
Contribution(cs) ==
    IF cs = <<>> THEN <<>>
    ELSE (IF Head(cs).raised THEN <<>> ELSE Head(cs).data)
            \o Contribution(Tail(cs))

\* C12: each of the five connector calls is made once per run, in order,
\* whatever the earlier ones did; a call that raises or returns nothing
\* contributes no record, and a game's list is what its other calls
\* returned.
C12_SourcesIsolated ==
    /\ Len(calls) <= 5
    /\ \A i \in DOMAIN calls : calls[i].call = ExtractCalls[i].call
    /\ epc \in {"no_source", "returned"} =>
          /\ Len(calls) = 5
          /\ \A g \in {"dota2", "csgo", "valorant", "gta5"} :
                results[g] = Contribution(CallsOf(g))

C12_Witness ==
    /\ epc = "returned"
    /\ ~calls[1].raised /\ Len(calls[1].data) = 2
    /\ calls[2].raised
    /\ calls[3].raised
    /\ ~calls[5].raised /\ Len(calls[5].data) = 1
    /\ Len(results["dota2"]) = 2

(***************************************************************************)
(* Player statistics: DataTransformer.transform_player_stats and the       *)
(* PlayerStatData schema.  A raw count of NULL is an absent, None or       *)
(* non-numeric value.                                                      *)
(***************************************************************************)
RawStat(id, player, kills, deaths, assists, score, rank) ==
    [stat_id |-> id, player_id |-> player, kills |-> kills,
     deaths |-> deaths, assists |-> assists, score |-> score, rank |-> rank]

\* counts a source can hand over
RawCounts == {NULL, 0, 7, -1}

RawStatPool ==
    {RawStat("s1", "p1", k, d, a, s, NULL) : k, d, a, s \in RawCounts}
    \cup {RawStat("s2", "p2", 3, 2, 1, 500, r) : r \in {0, 4}}

\* the dict of transform.py:76-85
StatRec(id, player, match, kills, deaths, assists, score, rank) ==
    [stat_id |-> id, player_id |-> player, match_id |-> match,
     kills |-> kills, deaths |-> deaths, assists |-> assists,
     score |-> score, rank |-> rank]

\* validators.py:36-40 PlayerStatData.validate_non_negative
ValidateNonNegative(v) == v >= 0

\* validators.py:25-40, 52-58 validate_player_stat_data on a record whose
\* ids are strings: the validator is declared for kills, deaths, assists
ValidatePlayerStatData(rec) ==
    /\ ValidateNonNegative(rec.kills)
    /\ ValidateNonNegative(rec.deaths)
    /\ ValidateNonNegative(rec.assists)

\* transform.py:73-105 DataTransformer.transform_player_stats
TransformPlayerStatsResult(raw, match) ==
    LET rec == StatRec(raw.stat_id, raw.player_id, match,
                       CleanNumericValue(raw.kills, 0),
                       CleanNumericValue(raw.deaths, 0),
                       CleanNumericValue(raw.assists, 0),
                       CleanNumericValue(raw.score, 0),
                       IF raw.rank # NULL /\ raw.rank # 0
                       THEN raw.rank ELSE NULL)
    IN IF ValidatePlayerStatData(rec)
       THEN [returned |-> "record", rec |-> rec]
       ELSE [returned |-> "None"]

TransformPlayerStats ==
    /\ statIn # <<>> /\ statOut = <<>>
    /\ statOut' = <<TransformPlayerStatsResult(statIn[1], "m1")>>
    /\ UNCHANGED <<statIn, statStore, statLoads, loadVars, xformVars,
                   fcVars, svcVars,
                   arVars, connVars, extVars, runVars>>

InitStats ==
    /\ statIn \in {<<r>> : r \in RawStatPool}
    /\ statOut = <<>> /\ statStore = <<>> /\ statLoads = <<>>
    /\ store = EmptyFn /\ loadSeq = 0 /\ loads = <<>>
    /\ IdleTransform
    /\ IdleForecast
    /\ IdleService /\ IdleRefresh
    /\ IdleExtract /\ IdleRun
    /\ IdleConnectors

NextStats == TransformPlayerStats

SpecStats == InitStats /\ [][NextStats]_vars

(***************************************************************************)
(* Properties of the player-stat transform.                                *)
(***************************************************************************)
RawNegative(v) == v # NULL /\ v < 0

\* C17: transform_player_stats returns a record only if kills, deaths,
\* assists and score are all >= 0, and returns None for a raw stat in
\* which one of the four is negative.
C17_CountsNonNegative ==
    statOut # <<>> =>
        /\ statOut[1].returned = "record" =>
              /\ statOut[1].rec.kills >= 0
              /\ statOut[1].rec.deaths >= 0
              /\ statOut[1].rec.assists >= 0
              /\ statOut[1].rec.score >= 0
        /\ (\/ RawNegative(statIn[1].kills)
            \/ RawNegative(statIn[1].deaths)
            \/ RawNegative(statIn[1].assists)
            \/ RawNegative(statIn[1].score))
              => statOut[1].returned = "None"

(***************************************************************************)
(* DataLoader.load_player_stats, the copy of load_matches for the          *)
(* player_stats table.  The session is the one of load_matches: queries    *)
(* read committed rows only, commit() flushes, rollback() discards.        *)
(*                                                                         *)
(* match_id is a foreign key to matches (models.py:92).  Whether a flush   *)
(* fails on a stat whose match is not stored depends on the database       *)
(* behind the engine (db_utils.py:27-72), so it is an input of the call.   *)
(* A violation of the foreign key to players is one of the commit          *)
(* failures the records of the batch do not decide.                        *)
(***************************************************************************)
MaxStats == 3      \* longest record list handed to load_player_stats

StatPool ==
    { StatRec("s1", "p1", "m1", 3, 2, 1, 500, NULL),
      StatRec("s2", "p2", "m1", 0, 4, 2, 300, NULL),
      StatRec("s1", "p1", "m1", 5, 2, 1, 700, 4),
      StatRec("s3", "p1", "m9", 1, 1, 1, 100, NULL) }

\* models.py:86-99 PlayerStat, the row a record becomes
NewStatRow(r, stamp) ==
    [stat_id |-> r.stat_id, player_id |-> r.player_id,
     match_id |-> r.match_id, kills |-> r.kills, deaths |-> r.deaths,
     assists |-> r.assists, score |-> r.score, rank |-> r.rank,
     created_at |-> stamp]

\* load.py:98-100, every key except stat_id is set on the existing row
UpdateStatRow(row, r) ==
    [row EXCEPT !.player_id = r.player_id, !.match_id = r.match_id,
                !.kills = r.kills, !.deaths = r.deaths,
                !.assists = r.assists, !.score = r.score, !.rank = r.rank]

\* load.py:90-117, one record of a batch
ProcessStatRecord(s, r, stamp) ==
    IF r.stat_id \in DOMAIN s.db
    THEN [s EXCEPT !.dirty = [x \in DOMAIN s.dirty \cup {r.stat_id} |->
                                 IF x = r.stat_id
                                 THEN UpdateStatRow(Loaded(s, x), r)
                                 ELSE s.dirty[x]],
                   !.updated = @ + 1]
    ELSE [s EXCEPT !.pending = Append(@, NewStatRow(r, stamp)),
                   !.inserted = @ + 1]

RECURSIVE ProcessStatBatch(_, _, _)
ProcessStatBatch(s, batch, stamp) ==
    IF batch = <<>> THEN s
    ELSE ProcessStatBatch(ProcessStatRecord(s, Head(batch), stamp),
                          Tail(batch), stamp)

\* the flush fails on a second row with a primary key and, where foreign
\* keys are enforced, on a row whose match is not stored; the players the
\* rows name are taken to be in the players table
StatFlushFails(s, matches, fk) ==
    \/ \E i, j \in DOMAIN s.pending :
          i # j /\ s.pending[i].stat_id = s.pending[j].stat_id
    \/ \E i \in DOMAIN s.pending : s.pending[i].stat_id \in DOMAIN s.db
    \/ fk /\ \E i \in DOMAIN s.pending :
                s.pending[i].match_id \notin DOMAIN matches
    \/ fk /\ \E id \in DOMAIN s.dirty :
                s.dirty[id].match_id \notin DOMAIN matches

PendingStatRow(s, id) ==
    s.pending[CHOOSE i \in DOMAIN s.pending : s.pending[i].stat_id = id]

StatFlushed(s) ==
    LET newIds == {s.pending[i].stat_id : i \in DOMAIN s.pending}
    IN [x \in DOMAIN s.db \cup newIds |->
           IF x \in DOMAIN s.dirty THEN s.dirty[x]
           ELSE IF x \in DOMAIN s.db THEN s.db[x]
           ELSE PendingStatRow(s, x)]

\* load.py:119-125, commit of one batch
CommitStatBatch(s, n, envFail, matches, fk) ==
    IF envFail \/ StatFlushFails(s, matches, fk)
    THEN [Rollback(s) EXCEPT !.errors = @ + n]
    ELSE [Rollback(s) EXCEPT !.db = StatFlushed(s)]

RECURSIVE LoadStatsFrom(_, _, _, _, _, _, _, _)
LoadStatsFrom(s, recs, bs, b, fail, stamp, matches, fk) ==
    IF b > NumBatches(recs, bs) THEN s
    ELSE LET batch == Batch(recs, bs, b)
             done == CommitStatBatch(ProcessStatBatch(s, batch, stamp),
                                     Len(batch), fail = b, matches, fk)
         IN LoadStatsFrom(done, recs, bs, b + 1, fail, stamp, matches, fk)

\* load.py:80-135 DataLoader.load_player_stats; fail is the number of the
\* batch whose commit fails for a reason of the environment, 0 for none
LoadPlayerStatsResult(db, recs, bs, fail, stamp, matches, fk) ==
    LET s == LoadStatsFrom(NewSession(db), recs, bs, 1, fail, stamp,
                           matches, fk)
    IN [db |-> s.db,
        stats |-> [inserted |-> s.inserted, updated |-> s.updated,
                   errors |-> s.errors]]

StatStoreOf(rows) ==
    [id \in {r.stat_id : r \in rows} |->
        CHOOSE r \in rows : r.stat_id = id]

\* the player_stats table before the call: empty, or s1 from an earlier run
InitialStatStores ==
    { EmptyFn,
      StatStoreOf({NewStatRow(StatRec("s1", "p1", "m1", 1, 1, 1, 50, NULL),
                              0)}) }

StatLoadSummary(recs, bs, fail, fk, before, res) ==
    [records |-> recs, batch_size |-> bs, fail |-> fail, fk |-> fk,
     before |-> before, after |-> res.db, stats |-> res.stats]

\* a call of load_player_stats
LoadPlayerStats ==
    /\ statLoads = <<>>
    /\ \E recs \in SeqsUpTo(StatPool, MaxStats), bs \in 1..MaxStats,
          fail \in 0..MaxStats, fk \in BOOLEAN :
          LET res == LoadPlayerStatsResult(statStore, recs, bs, fail, 1,
                                           store, fk)
          IN /\ statStore' = res.db
             /\ statLoads' = <<StatLoadSummary(recs, bs, fail, fk,
                                               statStore, res)>>
    /\ UNCHANGED <<statIn, statOut, loadVars, xformVars, fcVars, svcVars,
                   arVars, connVars,
                   extVars, runVars>>

\* the loader of both tables; a behaviour loads one of the two
InitLoader ==
    /\ store \in InitialStores
    /\ loadSeq = 0
    /\ loads = <<>>
    /\ statStore \in InitialStatStores
    /\ statIn = <<>> /\ statOut = <<>> /\ statLoads = <<>>
    /\ IdleTransform
    /\ IdleForecast
    /\ IdleService /\ IdleRefresh
    /\ IdleExtract /\ IdleRun
    /\ IdleConnectors

NextLoader ==
    \/ (statLoads = <<>> /\ statStore = EmptyFn /\ LoadMatches)
    \/ (statLoads = <<>> /\ statStore = EmptyFn /\ LoadMatchesAgain)
    \/ (loads = <<>> /\ LoadPlayerStats)

SpecLoader == InitLoader /\ [][NextLoader]_vars

(***************************************************************************)
(* Properties of the loader of both tables.                                *)
(***************************************************************************)
OneBatch(c) == c.batch_size >= Len(c.records)

\* the constructor raises on the record (the lookup found no row)
Raises(r, before) == r.unknown_key /\ r.match_id \notin DOMAIN before

\* a call of load_matches with one batch, which commits
OneCommittedBatch(c) ==
    /\ OneBatch(c)
    /\ DistinctIds(c.records)
    /\ ~EnvFailed(c)
    /\ \A i \in DOMAIN c.records : c.records[i].match_date # NULL

DistinctStatIds(recs) ==
    \A i, j \in DOMAIN recs : i # j => recs[i].stat_id # recs[j].stat_id

MatchKnown(c, r) == ~c.fk \/ r.match_id \in DOMAIN store

\* a call of load_player_stats with one batch, which commits
OneCommittedStatBatch(c) ==
    /\ OneBatch(c)
    /\ DistinctStatIds(c.records)
    /\ ~EnvFailed(c)
    /\ \A i \in DOMAIN c.records : MatchKnown(c, c.records[i])

UpsertedMatches(c, stamp) ==
    /\ \A i \in DOMAIN c.records :
          LET r == c.records[i]
          IN ~Raises(r, c.before) =>
                /\ r.match_id \in DOMAIN c.after
                /\ c.after[r.match_id] =
                      IF r.match_id \in DOMAIN c.before
                      THEN UpdateRow(c.before[r.match_id], r)
                      ELSE NewRow(r, stamp)
    /\ c.stats.updated =
          Cardinality({i \in DOMAIN c.records :
                          c.records[i].match_id \in DOMAIN c.before})
    /\ c.stats.inserted =
          Cardinality({i \in DOMAIN c.records :
                          /\ c.records[i].match_id \notin DOMAIN c.before
                          /\ ~Raises(c.records[i], c.before)})
    /\ \A id \in DOMAIN c.before \ Ids(c.records) :
          id \in DOMAIN c.after /\ c.after[id] = c.before[id]

UpsertedStats(c, stamp) ==
    /\ \A i \in DOMAIN c.records :
          LET r == c.records[i]
          IN /\ r.stat_id \in DOMAIN c.after
             /\ c.after[r.stat_id] =
                   IF r.stat_id \in DOMAIN c.before
                   THEN UpdateStatRow(c.before[r.stat_id], r)
                   ELSE NewStatRow(r, stamp)
    /\ c.stats.updated =
          Cardinality({i \in DOMAIN c.records :
                          c.records[i].stat_id \in DOMAIN c.before})
    /\ c.stats.inserted =
          Cardinality({i \in DOMAIN c.records :
                          c.records[i].stat_id \notin DOMAIN c.before})
    /\ \A id \in DOMAIN c.before :
          (\A i \in DOMAIN c.records : c.records[i].stat_id # id)
              => (id \in DOMAIN c.after /\ c.after[id] = c.before[id])

\* C15: upsert by natural key: of a batch that commits, every record whose
\* key is stored overwrites the non-key fields of that row and counts as
\* updated, every other record becomes a new row and counts as inserted,
\* and rows with other keys are left as they were; in load_matches and in
\* load_player_stats.
C15_UpsertByKey ==
    /\ \A n \in DOMAIN loads :
          OneCommittedBatch(loads[n]) => UpsertedMatches(loads[n], n)
    /\ \A n \in DOMAIN statLoads :
          OneCommittedStatBatch(statLoads[n]) => UpsertedStats(statLoads[n], n)

\* rows of the call that commit: no record of the call raises
NoneRaises(c) == \A i \in DOMAIN c.records : ~Raises(c.records[i], c.before)

\* the upsert without the rollback of load.py:50-59 in the batch
UpsertWhereNoneRaises ==
    /\ \A n \in DOMAIN loads :
          (OneCommittedBatch(loads[n]) /\ NoneRaises(loads[n]))
              => UpsertedMatches(loads[n], n)
    /\ \A n \in DOMAIN statLoads :
          OneCommittedStatBatch(statLoads[n]) => UpsertedStats(statLoads[n], n)

BatchIndices(c, b) ==
    ((b - 1) * c.batch_size + 1)..Min(b * c.batch_size, Len(c.records))

RECURSIVE SumOfSizes(_, _)
SumOfSizes(c, bs) ==
    IF bs = {} THEN 0
    ELSE LET b == CHOOSE x \in bs : TRUE
         IN Cardinality(BatchIndices(c, b)) + SumOfSizes(c, bs \ {b})

\* batches of a load_matches call whose commit fails: the environment, or
\* a row without match_date in the flush
FailedBatches(c) ==
    {b \in 1..NumBatches(c.records, c.batch_size) :
        \/ c.fail = b
        \/ \E i \in BatchIndices(c, b) : c.records[i].match_date = NULL}

\* batches of a load_player_stats call whose commit fails
FailedStatBatches(c) ==
    {b \in 1..NumBatches(c.records, c.batch_size) :
        \/ c.fail = b
        \/ \E i \in BatchIndices(c, b) : ~MatchKnown(c, c.records[i])}

\* a call in which commits are the only thing that can fail
CommitFailuresOnly(c) ==
    DistinctIds(c.records) /\ NoneRaises(c)

NotPersisted(c, id) ==
    IF id \in DOMAIN c.before
    THEN id \in DOMAIN c.after /\ c.after[id] = c.before[id]
    ELSE id \notin DOMAIN c.after

\* C16: when the commit of a batch fails, errors grows by the size of the
\* batch, no record of that batch is persisted, the batches committed
\* before it stay persisted and the batches after it are committed; in
\* load_matches and in load_player_stats.
C16_BatchCommitFailure ==
    /\ \A n \in DOMAIN loads :
          LET c == loads[n]
          IN CommitFailuresOnly(c) =>
                /\ c.stats.errors = SumOfSizes(c, FailedBatches(c))
                /\ \A b \in 1..NumBatches(c.records, c.batch_size) :
                      \A i \in BatchIndices(c, b) :
                          IF b \in FailedBatches(c)
                          THEN NotPersisted(c, c.records[i].match_id)
                          ELSE Persisted(c.after, c.records[i])
    /\ \A n \in DOMAIN statLoads :
          LET c == statLoads[n]
          IN DistinctStatIds(c.records) =>
                /\ c.stats.errors = SumOfSizes(c, FailedStatBatches(c))
                /\ \A b \in 1..NumBatches(c.records, c.batch_size) :
                      \A i \in BatchIndices(c, b) :
                          LET r == c.records[i]
                          IN IF b \in FailedStatBatches(c)
                             THEN NotPersisted(c, r.stat_id)
                             ELSE /\ r.stat_id \in DOMAIN c.after
                                  /\ c.after[r.stat_id] =
                                        UpdateStatRow(c.after[r.stat_id], r)

C16_Witness ==
    /\ Len(loads) = 1
    /\ CommitFailuresOnly(loads[1])
    /\ Len(loads[1].records) = 3
    /\ loads[1].batch_size = 1
    /\ loads[1].fail = 2
    /\ FailedBatches(loads[1]) = {2}
    /\ loads[1].stats.errors = 1
    /\ Cardinality(DOMAIN store) >= 2
    /\ loads[1].records[2].match_id \notin DOMAIN store

(***************************************************************************)
(* ETLPipeline.run: extraction, then for every game with records the       *)
(* transform, the load of the matches and, for dota2, the player stats.    *)
(* rpc is [at, game, done]: the step, the position of the loop in the      *)
(* dict, and the games handled so far.                                     *)
(***************************************************************************)
\* the keys of the dict in insertion order (extract.py:35-83)
TrackedOrder == <<"dota2", "csgo", "valorant", "gta5", "pubg", "cod">>

\* what can go wrong while the matches of one game are loaded:
\*   record  the handling of the last record raises inside the try block
\*   commit  the commit of the batch fails
MatchFaults == {"none", "record", "commit"}

\* what can go wrong with the player stats of dota2:
\*   players_raise  fetch_match_players raises
\*   players_none   fetch_match_players returns no player
\*   commit         the commit of the stats batch fails
StatsFaults == {"none", "players_raise", "players_none", "commit"}

\* the list with the record whose handling raises marked
WithRecordFault(recs, fault) ==
    [i \in DOMAIN recs |->
        IF fault = "record" /\ i = Len(recs)
        THEN [recs[i] EXCEPT !.unknown_key = TRUE]
        ELSE recs[i]]

\* the players OpenDota reports for a match: account 1, and account 2 with
\* a negative kill count
PlayersOf(match) ==
    << [account_id |-> "1", kills |-> 3, deaths |-> 2, assists |-> 7,
        total_gold |-> 500],
       [account_id |-> "2", kills |-> -1, deaths |-> 0, assists |-> 0,
        total_gold |-> 300] >>

\* run_pipeline.py:76-100, the stat of one player, transformed
PlayerStatOf(match, player) ==
    LET raw == RawStat("stat_" \o match.match_id \o "_" \o player.account_id,
                       "opendota_player_" \o player.account_id,
                       player.kills, player.deaths, player.assists,
                       player.total_gold, NULL)
        out == TransformPlayerStatsResult(raw, match.match_id)
    IN IF out.returned = "record" THEN <<out.rec>> ELSE <<>>

RECURSIVE StatsOfPlayers(_, _)
StatsOfPlayers(match, players) ==
    IF players = <<>> THEN <<>>
    ELSE PlayerStatOf(match, Head(players))
            \o StatsOfPlayers(match, Tail(players))

RECURSIVE StatsOfMatches(_, _)
StatsOfMatches(matches, fault) ==
    IF matches = <<>> THEN <<>>
    ELSE (IF Head(matches).source = "opendota_api" /\ fault = "none"
          THEN StatsOfPlayers(Head(matches), PlayersOf(Head(matches)))
          ELSE <<>>)
            \o StatsOfMatches(Tail(matches), fault)

\* run_pipeline.py:58-105, the player stats collected for one game; fault
\* is what fetch_match_players does for the matches of this run
CollectPlayerStats(game, transformed, fault) ==
    IF game # "dota2" THEN <<>>
    ELSE StatsOfMatches(SubSeq(transformed, 1, Min(5, Len(transformed))),
                        IF fault \in {"players_raise", "players_none"}
                        THEN fault ELSE "none")

\* a loop that is left when the load of a game reports errors
AfterGameStopping(r, game, errors) ==
    [at |-> "loop",
     game |-> IF errors > 0 THEN Len(TrackedOrder) + 1 ELSE r.game + 1,
     done |-> Append(r.done, game)]

\* run_pipeline.py:43, the for loop goes on to the next key
AfterGame(r, game, errors) ==
    [at |-> "loop", game |-> r.game + 1, done |-> Append(r.done, game)]

\* run_pipeline.py:37-41, extract_all_games has returned
RunExtracted ==
    /\ rpc.at = "extract" /\ epc = "returned"
    /\ rpc' = [rpc EXCEPT !.at = "loop", !.game = 1]
    /\ totals' = [matches |-> 0, stats |-> 0]
    /\ UNCHANGED <<loadVars, xformVars, fcVars, svcVars,
                   arVars, connVars, extVars, statVars>>

\* run_pipeline.py:44-45, a game without records
RunSkipGame ==
    /\ rpc.at = "loop" /\ rpc.game \in DOMAIN TrackedOrder
    /\ results[TrackedOrder[rpc.game]] = <<>>
    /\ rpc' = [rpc EXCEPT !.game = @ + 1]
    /\ UNCHANGED <<totals, loadVars, xformVars, fcVars, svcVars,
                   arVars, connVars, extVars,
                   statVars>>

\* run_pipeline.py:47-119, a game with records
RunProcessGame ==
    /\ rpc.at = "loop" /\ rpc.game \in DOMAIN TrackedOrder
    /\ results[TrackedOrder[rpc.game]] # <<>>
    /\ \E mf \in MatchFaults,
          sf \in (IF TrackedOrder[rpc.game] = "dota2"
                  THEN StatsFaults ELSE {"none"}),
          fk \in (IF TrackedOrder[rpc.game] = "dota2"
                  THEN BOOLEAN ELSE {FALSE}) :
          LET game == TrackedOrder[rpc.game]
              transformed == DeduplicateMatchesResult(
                                 TransformMatchesResult(results[game], game))
              recs == WithRecordFault(transformed, mf)
              fail == IF mf = "commit" THEN 1 ELSE 0
              res == LoadMatchesResult(store, recs, DefaultBatchSize, fail,
                                       loadSeq + 1)
              pstats == CollectPlayerStats(game, transformed, sf)
              sfail == IF sf = "commit" THEN 1 ELSE 0
              sres == LoadPlayerStatsResult(statStore, pstats,
                                            DefaultBatchSize, sfail,
                                            loadSeq + 1, res.db, fk)
          IN /\ store' = res.db
             /\ loadSeq' = loadSeq + 1
             /\ loads' = Append(loads, LoadSummary(recs, DefaultBatchSize,
                                                   fail, store, res))
             /\ IF pstats # <<>>
                THEN /\ statStore' = sres.db
                     /\ statLoads' = Append(statLoads,
                                        StatLoadSummary(pstats,
                                            DefaultBatchSize, sfail, fk,
                                            statStore, sres))
                     /\ totals' = [matches |-> totals.matches
                                                  + res.stats.inserted,
                                   stats |-> totals.stats
                                                + sres.stats.inserted]
                ELSE /\ UNCHANGED <<statStore, statLoads>>
                     /\ totals' = [totals EXCEPT
                                     !.matches = @ + res.stats.inserted]
             /\ rpc' = AfterGame(rpc, game, res.stats.errors)
    /\ UNCHANGED <<statIn, statOut, xformVars, fcVars, svcVars,
                   arVars, connVars, extVars>>

\* run_pipeline.py:121-130, the counts are returned
RunReturn ==
    /\ rpc.at = "loop" /\ rpc.game = Len(TrackedOrder) + 1
    /\ rpc' = [rpc EXCEPT !.at = "returned"]
    /\ UNCHANGED <<totals, loadVars, xformVars, fcVars, svcVars,
                   arVars, connVars, extVars,
                   statVars>>

InitRun ==
    /\ rpc = [at |-> "extract", game |-> 0, done |-> <<>>]
    /\ totals = [matches |-> 0, stats |-> 0]
    /\ results = <<>> /\ epc = "opendota_dota2" /\ calls = <<>>
    /\ store = EmptyFn /\ loadSeq = 0 /\ loads = <<>>
    /\ IdleStats
    /\ IdleTransform
    /\ IdleForecast
    /\ IdleService /\ IdleRefresh
    /\ IdleConnectors

NextRun ==
    \/ ExtractAllGames
    \/ RunExtracted
    \/ RunSkipGame
    \/ RunProcessGame
    \/ RunReturn

SpecRun == InitRun /\ [][NextRun]_vars

(***************************************************************************)
(* Properties of the pipeline run.                                         *)
(***************************************************************************)
RECURSIVE SumInserted(_)
SumInserted(ls) ==
    IF ls = <<>> THEN 0
    ELSE Head(ls).stats.inserted + SumInserted(Tail(ls))

GamesWithRecords == SelectSeq(TrackedOrder, LAMBDA g : results[g] # <<>>)

\* what the call would have reported on the same table had nothing failed
FaultFreeInserted(c) ==
    LoadMatchesResult(c.before,
                      [i \in DOMAIN c.records |->
                          [c.records[i] EXCEPT !.unknown_key = FALSE]],
                      c.batch_size, 0, 1).stats.inserted

FaultFreeStatsInserted(c) ==
    LoadPlayerStatsResult(c.before, c.records, c.batch_size, 0, 1, EmptyFn,
                          FALSE).stats.inserted

RunFailed(c) == c.stats.errors > 0

MaxCalls == 2      \* generate_player_count_forecasts calls on one service

\* horizons asked of the service
ServiceDays == {1, 2}

\* what can go wrong in one call of the service (see Faults)
ServiceFaults == {"none", "fit", "save", "infer"}

\* models.py:191-195 save_model: the fitted model is written to the file
SavedModel(model) == [exists |-> TRUE, lo |-> model.lo, hi |-> model.hi]

\* models.py:197-204 load_model: the model of the file, when there is one
LoadedModel(fc, file) ==
    IF file.exists
    THEN [is_trained |-> TRUE, lo |-> file.lo, hi |-> file.hi]
    ELSE fc

\* a service that never trains
TrainIfNeededSkipping(fc, file, df, fault) ==
    [forecaster |-> fc, file |-> file, steps |-> <<"reuse">>,
     raised |-> FALSE]

\* forecasting.py:41-47 with models.py:119-153: train is called whenever
\* is_trained is false, whatever is on disk; it raises in fit (fault fit,
\* is_trained stays false) or in save_model (fault save, is_trained is
\* already true), or it fits, sets is_trained and writes the file
TrainIfNeeded(fc, file, df, fault) ==
    IF fc.is_trained
    THEN [forecaster |-> fc, file |-> file, steps |-> <<"reuse">>,
          raised |-> FALSE]
    ELSE IF fault = "fit"
    THEN [forecaster |-> fc, file |-> file, steps |-> <<"train">>,
          raised |-> TRUE]
    ELSE IF fault = "save"
    THEN [forecaster |-> Trained(df), file |-> file, steps |-> <<"train">>,
          raised |-> TRUE]
    ELSE [forecaster |-> Trained(df), file |-> SavedModel(Trained(df)),
          steps |-> <<"train">>, raised |-> FALSE]

\* models.py:155-176 forecast: an untrained forecaster loads the file
\* first; predict raises on a model that was never fitted
ModelStep(fc, file, fault) ==
    LET m == IF fc.is_trained THEN fc ELSE LoadedModel(fc, file)
    IN [forecaster |-> m,
        raised |-> (fault = "infer" \/ ~m.is_trained),
        steps |-> IF fc.is_trained THEN <<"forecast">>
                  ELSE <<"load", "forecast">>]

\* the predictions the service model draws: the lowest the forest can give
ServicePreds(model, days) == [i \in 1..days |-> model.lo]

\* forecasting.py:22-70 on the service: the forecaster and the file after
\* the call, the steps taken in order, and the records returned
ServiceCall(fc, file, db, game, days, fault) ==
    LET hist == GetHistoricalMatchData(db, game, FALSE)
        df == DailySeries(hist)
        t == TrainIfNeeded(fc, file, df, fault)
        m == ModelStep(t.forecaster, t.file, fault)
        naive == SimpleForecasts(game, days)
    IN IF Len(hist) < MinHistoryDays
       THEN [forecaster |-> fc, file |-> file, path |-> "naive",
             steps |-> <<"history", "naive">>, result |-> naive]
       ELSE IF t.raised
       THEN [forecaster |-> t.forecaster, file |-> t.file,
             path |-> OnModelError(game, days, "train_error").path,
             steps |-> <<"history", "features">> \o t.steps \o <<"naive">>,
             result |-> OnModelError(game, days, "train_error").result]
       ELSE IF m.raised
       THEN [forecaster |-> m.forecaster, file |-> t.file,
             path |-> OnModelError(game, days, "infer_error").path,
             steps |-> <<"history", "features">> \o t.steps \o m.steps
                          \o <<"naive">>,
             result |-> OnModelError(game, days, "infer_error").result]
       ELSE [forecaster |-> m.forecaster, file |-> t.file, path |-> "model",
             steps |-> <<"history", "features">> \o t.steps \o m.steps,
             result |-> ModelForecasts(game, df,
                            ServicePreds(m.forecaster, days))]

ServiceLogEntry(game, days, fault, rows, c) ==
    [op |-> "generate", game |-> game, days |-> days, fault |-> fault,
     rows |-> rows, was_trained |-> forecaster.is_trained,
     file_before |-> modelFile.exists, is_trained |-> c.forecaster.is_trained,
     path |-> c.path, steps |-> c.steps, forecasts |-> c.result]

Generates(log) == SelectSeq(log, LAMBDA e : e.op = "generate")

\* a call of generate_player_count_forecasts on the service
ServiceGenerate ==
    /\ Len(Generates(fcLog)) < MaxCalls
    /\ \E game \in Games, days \in ServiceDays, fault \in ServiceFaults :
          LET c == ServiceCall(forecaster, modelFile, store, game, days,
                               fault)
              rows == Len(GetHistoricalMatchData(store, game, FALSE))
          IN /\ forecaster' = c.forecaster
             /\ modelFile' = c.file
             /\ fcLast' = CallSummary(game, days, c.path, "none", c.result,
                                      store, fault)
             /\ fcLog' = Append(fcLog,
                                ServiceLogEntry(game, days, fault, rows, c))
    /\ UNCHANGED <<fcStore, loadVars, xformVars, connVars, arVars, extVars,
                   runVars, statVars>>

\* forecasting.py:60 and 120, forecast_{game_id}_{YYYYMMDD}
ForecastId(f) == "forecast_" \o f.game_id \o "_" \o ToString(f.forecast_date)

ForecastRowOf(f) ==
    [forecast_id |-> ForecastId(f), game_id |-> f.game_id,
     forecast_date |-> f.forecast_date,
     predicted_metric |-> f.predicted_metric,
     predicted_value |-> f.predicted_value,
     confidence_interval_lower |-> f.confidence_interval_lower,
     confidence_interval_upper |-> f.confidence_interval_upper]

\* a save that empties the table before it writes
SaveRowsReplacing(db, fs) ==
    [id \in {ForecastId(fs[i]) : i \in DOMAIN fs} |->
        LET i == CHOOSE j \in DOMAIN fs : ForecastId(fs[j]) = id
        IN ForecastRowOf(fs[i])]

\* forecasting.py:139-155, every forecast is written under its
\* forecast_id: an existing row takes the new values, a new row is added
SaveRows(db, fs) ==
    [id \in DOMAIN db \cup {ForecastId(fs[i]) : i \in DOMAIN fs} |->
        IF \E i \in DOMAIN fs : ForecastId(fs[i]) = id
        THEN LET i == CHOOSE j \in DOMAIN fs : ForecastId(fs[j]) = id
             IN ForecastRowOf(fs[i])
        ELSE db[id]]

\* forecasting.py:132-163 save_forecasts of the list the last call
\* returned; a failing commit is rolled back and raised
SaveForecasts ==
    /\ fcLog # <<>> /\ fcLog[Len(fcLog)].op = "generate"
    /\ \E ok \in BOOLEAN :
          /\ fcStore' = IF ok THEN SaveRows(fcStore, fcLast.result)
                        ELSE fcStore
          /\ fcLog' = Append(fcLog, [op |-> "save", ok |-> ok,
                                     forecasts |-> fcLast.result])
    /\ UNCHANGED <<forecaster, fcLast, modelFile, loadVars, xformVars,
                   connVars, arVars, extVars, runVars, statVars>>

\* a model an earlier process left on disk
OldFile == [exists |-> TRUE, lo |-> 50, hi |-> 60]

ServiceStores ==
    { StoreOf(HistRows("dota2", 32..39, {33, 39})
                 \cup HistRows("csgo", 33..39, {})),
      StoreOf(HistRows("dota2", 33..39, {34})
                 \cup HistRows("csgo", 34..39, {35})) }

InitService ==
    /\ store \in ServiceStores
    /\ loadSeq = 0 /\ loads = <<>>
    /\ forecaster = Untrained /\ fcLast = NoCall
    /\ modelFile \in {NoFile, OldFile}
    /\ fcLog = <<>> /\ fcStore = EmptyFn
    /\ IdleTransform
    /\ IdleRefresh
    /\ IdleExtract /\ IdleRun /\ IdleStats
    /\ IdleConnectors

NextService == ServiceGenerate \/ SaveForecasts

SpecService == InitService /\ [][NextService]_vars

(***************************************************************************)
(* Properties of the service over its lifetime.                            *)
(***************************************************************************)
Trains(e) == \E i \in DOMAIN e.steps : e.steps[i] = "train"

\* C21: on one service, training is attempted only when the forecaster is
\* untrained and no persisted model is available, and at most once; after
\* a successful training every later call reuses the model without
\* retraining, and is_trained never returns to false.
C21_TrainOnceIfNoModel ==
    LET gs == Generates(fcLog)
    IN /\ \A n \in DOMAIN gs :
             Trains(gs[n]) => (~gs[n].was_trained /\ ~gs[n].file_before)
       /\ Cardinality({n \in DOMAIN gs : Trains(gs[n])}) <= 1
       /\ \A n \in DOMAIN gs : gs[n].was_trained =>
             (gs[n].is_trained /\ ~Trains(gs[n]))


Saves(log) == SelectSeq(log, LAMBDA e : e.op = "save" /\ e.ok)

SavedIds(e) == {ForecastId(e.forecasts[i]) : i \in DOMAIN e.forecasts}

\* the forecast most recently saved under the id
LastSavedUnder(log, id) ==
    LET ss == Saves(log)
        n == SetMax({k \in DOMAIN ss : id \in SavedIds(ss[k])})
        i == CHOOSE j \in DOMAIN ss[n].forecasts :
                ForecastId(ss[n].forecasts[j]) = id
    IN ss[n].forecasts[i]

ForecastKey(row) ==
    <<row.game_id, row.predicted_metric, row.forecast_date>>

\* C22: forecast rows are keyed by (game_id, metric, date): the
\* forecast_id is a function of the three, and after any sequence of
\* generate and save runs the table holds, for every key ever saved,
\* exactly one row, with the values of the most recent save; a re-run
\* overwrites and never duplicates or deletes rows.
C22_ForecastRowsKeyed ==
    /\ \A id \in DOMAIN fcStore :
          /\ fcStore[id].forecast_id = id
          /\ id = ForecastId(fcStore[id])
    /\ \A a, b \in DOMAIN fcStore :
          ForecastKey(fcStore[a]) = ForecastKey(fcStore[b]) => a = b
    /\ DOMAIN fcStore
          = UNION {SavedIds(Saves(fcLog)[k]) : k \in DOMAIN Saves(fcLog)}
    /\ \A id \in DOMAIN fcStore :
          fcStore[id] = ForecastRowOf(LastSavedUnder(fcLog, id))

C22_Witness ==
    /\ Len(Saves(fcLog)) = 2
    /\ \E id \in SavedIds(Saves(fcLog)[1]) \cap SavedIds(Saves(fcLog)[2]) :
          /\ LastSavedUnder(<<Saves(fcLog)[1]>>, id).predicted_value
                # fcStore[id].predicted_value
    /\ \E id \in SavedIds(Saves(fcLog)[1]) :
          id \notin SavedIds(Saves(fcLog)[2])
    /\ Cardinality(DOMAIN fcStore) = 3


StraightToNaive(e) == e.steps = <<"history", "naive">> /\ e.path = "naive"

ThroughModel(e) ==
    /\ e.steps \in {<<"history", "features", "train", "forecast">>,
                    <<"history", "features", "reuse", "forecast">>}
    /\ e.path = "model"

TrainOrReuse(e) == IF e.was_trained THEN "reuse" ELSE "train"

\* the call left the model path for the naive forecast because train or
\* forecast raised
FellBack(e) ==
    /\ e.steps \in {<<"history", "features", TrainOrReuse(e), "naive">>,
                    <<"history", "features", TrainOrReuse(e), "forecast",
                      "naive">>}
    /\ e.steps[3] = "train" \/ Len(e.steps) = 5
    /\ e.path = "naive"
    /\ e.fault # "none"
    /\ e.forecasts = SimpleForecasts(e.game, e.days)

RECURSIVE HttpAttempts(_)
HttpAttempts(requests) ==
    IF requests = <<>> THEN 0
    ELSE Head(requests).attempts + HttpAttempts(Tail(requests))

\* C23: one fetch_data call against an endpoint that keeps failing (429,
\* 5xx or connection error) makes at most retry_count HTTP attempts and
\* then returns None/empty.
C23_RetriesBounded ==
    (Fetched /\ fetchLast.op = "fetch_data" /\ SourceDown(fetchLast)) =>
        /\ HttpAttempts(fetchLast.requests) <= RetryCount
        /\ fetchLast.kind = "empty"


(***************************************************************************)
(* The limit of the extraction.                                            *)
(***************************************************************************)
\* extract.py:28 limit_per_game: every connector call is handed this limit
\* and returns at most as many records (opendota_api.py:41,
\* steam_api.py:108)
LimitPerGame == MaxPerCall

\* C28: extract_all_games(limit_per_game) returns at most limit_per_game
\* raw records for each game.
C28_AtMostLimitPerGame ==
    epc = "returned" =>
        \A g \in DOMAIN results : Len(results[g]) <= LimitPerGame


(***************************************************************************)
(* The tallies of the loader.                                              *)
(***************************************************************************)
Tallied(c) == c.stats.inserted + c.stats.updated + c.stats.errors

\* C25: for every load_matches or load_player_stats call that returns,
\* inserted + updated + errors equals the number of input records, also
\* when a record fails or a batch commit fails.
C25_CountConservation ==
    /\ \A n \in DOMAIN loads : Tallied(loads[n]) = Len(loads[n].records)
    /\ \A n \in DOMAIN statLoads :
          Tallied(statLoads[n]) = Len(statLoads[n].records)


(***************************************************************************)
(* The counts of a run against the tables.                                 *)
(***************************************************************************)
MatchesBeforeRun == IF loads = <<>> THEN store ELSE loads[1].before

StatsBeforeRun == IF statLoads = <<>> THEN statStore ELSE statLoads[1].before

NewlyPresent(before, after) == Cardinality(DOMAIN after \ DOMAIN before)

\* C26: the counts run returns are truthful: matches_loaded is the number
\* of match rows newly present in the store after the run, stats_loaded
\* the number of newly present player-stat rows, also when a record or a
\* batch commit failed during the run.
C26_TruthfulCounts ==
    rpc.at = "returned" =>
        /\ totals.matches = NewlyPresent(MatchesBeforeRun, store)
        /\ totals.stats = NewlyPresent(StatsBeforeRun, statStore)


(***************************************************************************)
(* One key twice in the input of one call.                                 *)
(***************************************************************************)
SameKeyTwice(c) ==
    /\ Len(c.records) = 2
    /\ c.records[1].match_id = c.records[2].match_id
    /\ AllAcceptable(c.records)
    /\ ~EnvFailed(c)

\* C27: when the same match_id occurs twice in the input of one
\* load_matches call, in one batch or in two, the store ends with one row
\* for the key holding the fields of the later record, the first record
\* is counted as inserted or updated, the second as updated, and nothing
\* is counted as an error.
C27_LastWins ==
    \A n \in DOMAIN loads :
        SameKeyTwice(loads[n]) =>
            /\ Persisted(loads[n].after, loads[n].records[2])
            /\ loads[n].stats.errors = 0
            /\ loads[n].stats.inserted
                  = (IF loads[n].records[1].match_id \in DOMAIN loads[n].before
                     THEN 0 ELSE 1)
            /\ loads[n].stats.inserted + loads[n].stats.updated = 2


(***************************************************************************)
(* Player stats and the matches they name.                                 *)
(***************************************************************************)
StatsOfRun == DOMAIN statStore \ DOMAIN StatsBeforeRun

\* C29: after any run, every player-stat row persisted by that run has a
\* match_id for which a match row is persisted in the store, also when
\* the load of that game's matches had record errors or a failed commit.
C29_StatsHaveMatches ==
    rpc.at = "returned" =>
        \A id \in StatsOfRun : statStore[id].match_id \in DOMAIN store


(***************************************************************************)
(* AutoRefreshService: start and stop are called from the application,     *)
(* every started thread executes _refresh_loop.  threads[t] is where       *)
(* thread t stands: test (at the while condition), run (in pipeline.run),  *)
(* sleep (in time.sleep), done (the loop was left).  thread = 0 and        *)
(* last_refresh = 0 stand for None.                                        *)
(***************************************************************************)
MaxThreads == 3    \* threads started in one behaviour

Live(t) == threads[t] # "done"

\* auto_refresh.py:24-33 start
Start ==
    /\ Len(threads) < MaxThreads
    /\ IF is_running
       THEN UNCHANGED arVars
       ELSE /\ is_running' = TRUE
            /\ threads' = Append(threads, "test")
            /\ thread' = Len(threads) + 1
            /\ UNCHANGED last_refresh
    /\ UNCHANGED <<loadVars, xformVars, fcVars, svcVars, connVars, extVars,
                   runVars, statVars>>

\* auto_refresh.py:35-40 stop: the flag is cleared and the thread started
\* last is joined for 5 seconds; a thread at the while condition leaves the
\* loop within the join, one that sleeps (120 s) or runs the pipeline can
\* outlast it
Stop ==
    /\ is_running' = FALSE
    /\ threads' = [t \in DOMAIN threads |->
                     IF t = thread /\ threads[t] = "test" THEN "done"
                     ELSE threads[t]]
    /\ UNCHANGED <<thread, last_refresh>>
    /\ UNCHANGED <<loadVars, xformVars, fcVars, svcVars, connVars, extVars,
                   runVars, statVars>>

\* auto_refresh.py:44, the while condition
LoopTest(t) ==
    /\ threads[t] = "test"
    /\ threads' = [threads EXCEPT ![t] = IF is_running THEN "run" ELSE "done"]
    /\ UNCHANGED <<is_running, thread, last_refresh>>
    /\ UNCHANGED <<loadVars, xformVars, fcVars, svcVars, connVars, extVars,
                   runVars, statVars>>

\* auto_refresh.py:45-54, pipeline.run returns or its exception is caught,
\* last_refresh is set when it returned, and the thread goes to sleep
LoopRun(t) ==
    /\ threads[t] = "run"
    /\ threads' = [threads EXCEPT ![t] = "sleep"]
    /\ \E raised \in BOOLEAN :
          last_refresh' = IF raised THEN last_refresh ELSE t
    /\ UNCHANGED <<is_running, thread>>
    /\ UNCHANGED <<loadVars, xformVars, fcVars, svcVars, connVars, extVars,
                   runVars, statVars>>

\* auto_refresh.py:54, time.sleep returns
LoopWake(t) ==
    /\ threads[t] = "sleep"
    /\ threads' = [threads EXCEPT ![t] = "test"]
    /\ UNCHANGED <<is_running, thread, last_refresh>>
    /\ UNCHANGED <<loadVars, xformVars, fcVars, svcVars, connVars, extVars,
                   runVars, statVars>>

RefreshLoop == \E t \in DOMAIN threads : LoopTest(t) \/ LoopRun(t) \/ LoopWake(t)

InitRefresh ==
    /\ IdleRefresh
    /\ store = EmptyFn /\ loadSeq = 0 /\ loads = <<>>
    /\ IdleTransform
    /\ IdleForecast
    /\ IdleService
    /\ IdleExtract /\ IdleRun /\ IdleStats
    /\ IdleConnectors

NextRefresh == Start \/ Stop \/ RefreshLoop

SpecRefresh == InitRefresh /\ [][NextRefresh]_vars

\* C30: after any sequence of start() and stop() calls there is never more
\* than one live thread executing _refresh_loop, so two pipeline runs
\* started by the service never overlap.
C30_OneRefreshLoop ==
    /\ Cardinality({t \in DOMAIN threads : Live(t)}) <= 1
    /\ Cardinality({t \in DOMAIN threads : threads[t] = "run"}) <= 1

====
